---- MODULE Spec2Model ----
(***************************************************************************)
(* A model of the USB music player appliance (Shaka-Agina/slab-local).     *)
(*                                                                         *)
(*   Spec      the mount change detector, usb_monitor.USBMonitor, driven   *)
(*             by one caller as in test-native-direct.py                   *)
(*   SpecFair  the same detector with the scheduling of its thread         *)
(*   SpecMP    the VLC player, music_player.MusicPlayer, each call of its  *)
(*             owner, its control monitor and its engine taken whole       *)
(*   SpecMPRace  the same player with _on_track_end and the commands of    *)
(*             the control file interleaved statement by statement         *)
(*   SpecOrch  main.main_loop driving player.Player, and USBMonitor's      *)
(*             check, polling one mount state, each turn taken whole       *)
(*   SpecCmd   MusicPlayer._process_control_file reading texts written to  *)
(*             the control file, and web_interface's volume route          *)
(*   SpecReq   the requests of main.py and app.py read from the control    *)
(*             file and executed on player.Player                          *)
(*   SpecExit  the same with the ways main.py and app.py end               *)
(*   SpecResolve  the resolvers of utils.py and of USBMonitor, called in   *)
(*             every world of mounted paths                                *)
(*   SpecStale the same resolvers on mounts that have gone bad             *)
(*   SpecWeb   the transport routes of web_interface.py and of player.py   *)
(*   SpecFind  MusicPlayer._find_tracks_by_name on libraries of files      *)
(*   SpecRaise the detector with callbacks that raise exceptions           *)
(*   SpecRestart  the detector stopped and started again                   *)
(*   SpecLoops set_control_source and the threads of                       *)
(*             _control_monitor_loop, statement by statement               *)
(*                                                                         *)
(* The variables of a component that a specification does not use keep     *)
(* their initial values in it.                                             *)
(***************************************************************************)
EXTENDS Integers, Sequences, FiniteSets, TLC

(***************************************************************************)
(* Bounds of the model.                                                    *)
(***************************************************************************)
MaxMountChanges == 2
MaxUdevLines == 1
MaxCtlLoops == 2
MaxFileEdits == 2
MaxRaceEdits == 1
MaxOrchEdits == 1
MaxCmdWrites == 1
MaxReqWrites == 1
MaxPresent == 3
MaxStalePresent == 2
MaxWebRequests == 2
MaxWebMounts == 2
MaxLibrary == 3
MaxStartAgain == 1
MaxRestartMounts == 1
MaxLoopThreads == 2
MaxLoopEdits == 1

(***************************************************************************)
(* Paths.  None is Python's None; a resolver returns a path or None.       *)
(***************************************************************************)
None == "None"
MusicPaths == {"/media/pi/MUSIC", "/media/pi/MUSIC1"}
ControlPaths == {"/media/pi/PLAY_CARD", "/media/pi/PLAY_CARD1"}
MusicPathOpt == MusicPaths \cup {None}
ControlPathOpt == ControlPaths \cup {None}

VARIABLES
    \* ---- the underlying mount state, as the resolvers see it ----
    fsMusic,              \* what _find_music_usb() returns now
    fsControl,            \* what _find_control_usb() returns now
    mountChanges,         \* number of changes of the mount state so far
    \* ---- the udevadm subprocess ----
    procAlive,            \* the process spawned by Popen is running
    udevOut,              \* number of lines on its stdout that are not yet read
    \* ---- USBMonitor fields ----
    monitoring,
    current_music_usb,
    current_control_usb,
    \* ---- the running code: caller and monitor thread ----
    callerPc,             \* the caller of start_monitoring / stop_monitoring
    pc,                   \* where the scan / monitor thread is
    ctx,                  \* which loop the running check returns to
    music_usb,            \* local of _check_usb_changes / _initial_scan
    control_usb,          \* local of _check_usb_changes / _initial_scan
    \* ---- observation ----
    musicLog,             \* the (newPath, oldPath) pairs on_music_usb_change got
    controlLog,           \* the (newPath, oldPath) pairs on_control_usb_change got
    musicSeen,            \* the paths the checks resolved for music, repeats dropped
    controlSeen,          \* the paths the checks resolved for control, repeats dropped
    \* ---- music_player.MusicPlayer ----
    mp,                   \* the MusicPlayer object: its fields and its VLC player
    controlFile,          \* the control file on the control device: content, mtime
    ctlLoops,             \* number of live _control_monitor_loop threads
    ctlReread,            \* observation: the re-read a control-source transition calls for
    \* ---- MusicPlayer's threads, statement by statement ----
    vlcPc,                \* where VLC's event thread is in _on_track_end
    vlcLocal,             \* that thread's local: index of _play_track_at_index
    ctlPc,                \* where the control monitor thread is in a command
    ctlLocal,             \* that thread's local: content, then track_path
    \* ---- main.main_loop and player.Player ----
    previously_mounted,   \* local of main_loop
    last_control_path,    \* local of main_loop
    pl,                   \* the Player object: its fields and its VLC list player
    orchLog,              \* observation: per acting turn <<new path, old path, calls>>
    \* ---- the interpreters of the control file's text ----
    cmdLog,               \* observation: who read the text last, and as which command
    \* ---- the process of main.py or app.py ----
    proc,                 \* whether it runs; once ended, by what, and the engine's state then
    \* ---- the resolvers of utils.py and of USBMonitor ----
    world,                \* what is mounted where, and the environment variables
    resolved,             \* observation: the resolver called last, and what it returned
    \* ---- the routes of web_interface.py and of player.py ----
    web,                  \* the request being served and how far its handler is
    \* ---- the search of _find_tracks_by_name ----
    search,               \* the files os.walk hands out, the name asked for, the tracks found
    \* ---- a second start_monitoring ----
    earlier,              \* the loop thread of the session before, and its udevadm process
    \* ---- the threads of MusicPlayer._control_monitor_loop ----
    loops                 \* each loop thread's position and locals, and the caller's

fsVars == <<fsMusic, fsControl, mountChanges>>
udevVars == <<procAlive, udevOut>>
monFields == <<monitoring, current_music_usb, current_control_usb>>
monCode == <<callerPc, pc, ctx, music_usb, control_usb>>
monObs == <<musicLog, controlLog, musicSeen, controlSeen>>
monVars == <<fsVars, udevVars, monFields, monCode, monObs>>

raceVars == <<vlcPc, vlcLocal, ctlPc, ctlLocal>>
resVars == <<world, resolved, web, search, earlier, loops>>
cmdVars == <<cmdLog, proc, resVars>>
orchVars == <<previously_mounted, last_control_path, pl, orchLog, cmdVars>>
playerVars == <<mp, controlFile, ctlLoops, ctlReread, raceVars, orchVars>>

vars == <<monVars, playerVars>>

Last(s) == s[Len(s)]

(***************************************************************************)
(* USBMonitor.__init__ and the state of the machine around it.             *)
(***************************************************************************)
MonInit ==
    /\ fsMusic \in MusicPathOpt
    /\ fsControl \in ControlPathOpt
    /\ mountChanges = 0
    /\ procAlive = FALSE
    /\ udevOut = 0
    /\ monitoring = FALSE
    /\ current_music_usb = None
    /\ current_control_usb = None
    /\ callerPc = "new"
    /\ pc = "init"
    /\ ctx = "scan"
    /\ music_usb = None
    /\ control_usb = None
    /\ musicLog = <<>>
    /\ controlLog = <<>>
    /\ musicSeen = <<>>
    /\ controlSeen = <<>>

(***************************************************************************)
(* The environment: devices are mounted and unmounted, the kernel emits    *)
(* udev lines, the udevadm process may die.                                *)
(***************************************************************************)
MountChange ==
    /\ mountChanges < MaxMountChanges
    /\ \E m \in MusicPathOpt, c \in ControlPathOpt :
          /\ <<m, c>> # <<fsMusic, fsControl>>
          /\ fsMusic' = m
          /\ fsControl' = c
    /\ mountChanges' = mountChanges + 1
    /\ UNCHANGED <<playerVars, udevVars, monFields, monCode, monObs>>

\* udevadm prints a block of lines per event; only a line holding ACTION=add or
\* ACTION=remove triggers a check (usb_monitor.py:81).  What a line holds is
\* seen by its reader alone, so it is chosen when the line is read.
UdevLines == {"ACTION", "other"}

UdevEmit ==
    /\ procAlive
    /\ udevOut < MaxUdevLines
    /\ udevOut' = udevOut + 1
    /\ UNCHANGED <<playerVars, procAlive, fsVars, monFields, monCode, monObs>>

UdevExit ==
    /\ procAlive
    /\ procAlive' = FALSE
    /\ UNCHANGED <<playerVars, udevOut, fsVars, monFields, monCode, monObs>>

(***************************************************************************)
(* The callbacks: each call is recorded with its arguments.                *)
(***************************************************************************)
OnMusicChange(newPath, oldPath) == musicLog' = Append(musicLog, <<newPath, oldPath>>)
OnControlChange(newPath, oldPath) == controlLog' = Append(controlLog, <<newPath, oldPath>>)

(***************************************************************************)
(* _handle_music_usb_change / _handle_control_usb_change                   *)
(***************************************************************************)
\* a handler that forgets to update the cached path
HandleMusicUsbChangeNoCache(new_music_usb) ==
    /\ current_music_usb' = current_music_usb
    /\ OnMusicChange(new_music_usb, current_music_usb)

HandleMusicUsbChange(new_music_usb) ==
    /\ current_music_usb' = new_music_usb
    /\ OnMusicChange(new_music_usb, current_music_usb)

\* a handler that calls back before it has a cached path to show
HandleControlUsbChangeNoCache(new_control_usb) ==
    /\ current_control_usb' = current_control_usb
    /\ OnControlChange(new_control_usb, current_control_usb)

HandleControlUsbChange(new_control_usb) ==
    /\ current_control_usb' = new_control_usb
    /\ OnControlChange(new_control_usb, current_control_usb)

\* the comparison of _check_usb_changes and _initial_scan
MusicChanged == music_usb # current_music_usb
ControlChanged == control_usb # current_control_usb

\* the observer's own count of changes: a resolved path that differs from the
\* path the previous check resolved (None before the first check)
SeenAfter(seen, p) ==
    IF p # (IF seen = <<>> THEN None ELSE Last(seen)) THEN Append(seen, p) ELSE seen

(***************************************************************************)
(* start_monitoring / stop_monitoring, called as test-native-direct.py     *)
(* calls them: one start, then one stop.                                   *)
(***************************************************************************)
StartMonitoring ==
    /\ callerPc = "new"
    /\ ~monitoring
    /\ monitoring' = TRUE
    /\ callerPc' = "started"
    /\ pc' = "findMusic"
    /\ ctx' = "scan"
    /\ UNCHANGED <<playerVars, current_music_usb, current_control_usb, music_usb, control_usb,
                   fsVars, udevVars, monObs>>

StopMonitoring ==
    /\ callerPc = "started"
    /\ pc \notin {"findMusic", "findControl", "cmpMusic", "cmpControl"} \/ ctx # "scan"
    /\ monitoring' = FALSE
    /\ callerPc' = "stopped"
    /\ UNCHANGED <<playerVars, current_music_usb, current_control_usb, pc, ctx, music_usb,
                   control_usb, fsVars, udevVars, monObs>>

(***************************************************************************)
(* _check_usb_changes and _initial_scan: resolve both roles, then compare  *)
(* each with the cached path.                                              *)
(***************************************************************************)
FindMusic ==
    /\ pc = "findMusic"
    /\ music_usb' = fsMusic
    /\ pc' = "findControl"
    /\ UNCHANGED <<playerVars, callerPc, ctx, control_usb, fsVars, udevVars, monFields, monObs>>

FindControl ==
    /\ pc = "findControl"
    /\ control_usb' = fsControl
    /\ pc' = "cmpMusic"
    /\ UNCHANGED <<playerVars, callerPc, ctx, music_usb, fsVars, udevVars, monFields, monObs>>

CompareMusic ==
    /\ pc = "cmpMusic"
    /\ IF MusicChanged
          THEN HandleMusicUsbChange(music_usb)
          ELSE UNCHANGED <<current_music_usb, musicLog>>
    /\ musicSeen' = SeenAfter(musicSeen, music_usb)
    /\ music_usb' = None                       \* the local is not read again
    /\ pc' = "cmpControl"
    /\ UNCHANGED <<playerVars, monitoring, current_control_usb, callerPc, ctx, control_usb,
                   fsVars, udevVars, controlLog, controlSeen>>

\* where a finished check returns to
AfterCheck ==
    CASE ctx = "scan" -> "popen"
      [] ctx = "udev" -> "udevTop"
      [] ctx = "poll" -> "sleep3"

CompareControl ==
    /\ pc = "cmpControl"
    /\ IF ControlChanged
          THEN HandleControlUsbChange(control_usb)
          ELSE UNCHANGED <<current_control_usb, controlLog>>
    /\ controlSeen' = SeenAfter(controlSeen, control_usb)
    /\ control_usb' = None                     \* the function returns
    /\ pc' = AfterCheck
    /\ UNCHANGED <<playerVars, monitoring, current_music_usb, callerPc, ctx, music_usb,
                   fsVars, udevVars, musicLog, musicSeen>>

(***************************************************************************)
(* _monitor_udev_events                                                    *)
(***************************************************************************)
\* a spawn failure that ends the thread instead of polling
PopenNoFallback ==
    /\ pc = "popen"
    /\ \E spawned \in BOOLEAN :
          IF spawned
             THEN /\ procAlive' = TRUE
                  /\ pc' = "udevTop"
             ELSE /\ procAlive' = FALSE
                  /\ pc' = "exited"
    /\ UNCHANGED <<playerVars, udevOut, callerPc, ctx, music_usb, control_usb, fsVars,
                   monFields, monObs>>

\* subprocess.Popen: the process starts, or FileNotFoundError / another
\* exception leads to _fallback_polling
Popen ==
    /\ pc = "popen"
    /\ \E spawned \in BOOLEAN :
          IF spawned
             THEN /\ procAlive' = TRUE
                  /\ pc' = "udevTop"
             ELSE /\ procAlive' = FALSE
                  /\ pc' = "pollTop"
    /\ UNCHANGED <<playerVars, udevOut, callerPc, ctx, music_usb, control_usb, fsVars,
                   monFields, monObs>>

\* while self.monitoring:
UdevTop ==
    /\ pc = "udevTop"
    /\ pc' = IF monitoring THEN "readline" ELSE "exited"
    /\ UNCHANGED <<playerVars, callerPc, ctx, music_usb, control_usb, fsVars, udevVars,
                   monFields, monObs>>

\* line = process.stdout.readline(): blocks until a line is there; returns ''
\* at end of file, and then the loop breaks
Readline ==
    /\ pc = "readline"
    /\ IF udevOut > 0
          THEN /\ udevOut' = udevOut - 1
               /\ \E line \in UdevLines :
                     pc' = IF line = "ACTION" THEN "sleep1" ELSE "udevTop"
          ELSE /\ ~procAlive
               /\ udevOut' = udevOut
               /\ pc' = "exited"
    /\ UNCHANGED <<playerVars, procAlive, callerPc, ctx, music_usb, control_usb, fsVars,
                   monFields, monObs>>

\* time.sleep(1); self._check_usb_changes()
Sleep1 ==
    /\ pc = "sleep1"
    /\ pc' = "findMusic"
    /\ ctx' = "udev"
    /\ UNCHANGED <<playerVars, callerPc, music_usb, control_usb, fsVars, udevVars, monFields,
                   monObs>>

(***************************************************************************)
(* _fallback_polling                                                       *)
(***************************************************************************)
PollTop ==
    /\ pc = "pollTop"
    /\ IF monitoring
          THEN /\ pc' = "findMusic"
               /\ ctx' = "poll"
          ELSE /\ pc' = "exited"
               /\ ctx' = ctx
    /\ UNCHANGED <<playerVars, callerPc, music_usb, control_usb, fsVars, udevVars, monFields,
                   monObs>>

Sleep3 ==
    /\ pc = "sleep3"
    /\ pc' = "pollTop"
    /\ UNCHANGED <<playerVars, callerPc, ctx, music_usb, control_usb, fsVars, udevVars,
                   monFields, monObs>>

(***************************************************************************)
(* The detector's specification.                                           *)
(***************************************************************************)
MonThreadStep ==
    \/ FindMusic
    \/ FindControl
    \/ CompareMusic
    \/ CompareControl
    \/ Popen
    \/ UdevTop
    \/ Readline
    \/ Sleep1
    \/ PollTop
    \/ Sleep3

MonEnvStep ==
    \/ MountChange
    \/ UdevEmit
    \/ UdevExit

MonNext ==
    \/ StartMonitoring
    \/ StopMonitoring
    \/ MonThreadStep
    \/ MonEnvStep

(***************************************************************************)
(* Callbacks that raise.  _handle_*_usb_change has stored the new path and *)
(* calls the callback; its exception leaves _check_usb_changes at once.    *)
(* In _monitor_udev_events the except clause of the loop breaks, in        *)
(* _fallback_polling it sleeps 5 seconds and goes on, and from             *)
(* _initial_scan the exception leaves start_monitoring before the thread   *)
(* is started.                                                             *)
(***************************************************************************)
AfterRaise ==
    CASE ctx = "scan" -> "exited"
      [] ctx = "udev" -> "exited"
      [] ctx = "poll" -> "sleep3"

X_MusicCallbackRaises ==
    /\ pc = "cmpMusic"
    /\ MusicChanged
    /\ HandleMusicUsbChange(music_usb)
    /\ musicSeen' = SeenAfter(musicSeen, music_usb)
    /\ music_usb' = None
    /\ control_usb' = None
    /\ pc' = AfterRaise
    /\ UNCHANGED <<playerVars, monitoring, current_control_usb, callerPc, ctx,
                   fsVars, udevVars, controlLog, controlSeen>>

X_ControlCallbackRaises ==
    /\ pc = "cmpControl"
    /\ ControlChanged
    /\ HandleControlUsbChange(control_usb)
    /\ controlSeen' = SeenAfter(controlSeen, control_usb)
    /\ control_usb' = None
    /\ pc' = AfterRaise
    /\ UNCHANGED <<playerVars, monitoring, current_music_usb, callerPc, ctx, music_usb,
                   fsVars, udevVars, musicLog, musicSeen>>

\* the detector with callbacks that may raise and a udevadm that stays up
RaiseNext ==
    \/ StartMonitoring
    \/ StopMonitoring
    \/ MonThreadStep
    \/ MountChange
    \/ UdevEmit
    \/ X_MusicCallbackRaises
    \/ X_ControlCallbackRaises

(***************************************************************************)
(* start_monitoring called again.  While monitoring it returns at once.    *)
(* After stop_monitoring it starts a new session: the scan, a new thread   *)
(* and a new udevadm process; the thread of the session before may still   *)
(* be there, blocked in readline or asleep between two polls, because      *)
(* stop_monitoring waits for it for 2 seconds only.  The variables of the  *)
(* loop thread then stand for the new thread, and earlier for the old one, *)
(* whose check is taken whole.                                             *)
(***************************************************************************)
NoEarlier == [pc |-> "none", procAlive |-> FALSE, udevOut |-> 0, returned |-> 0]

\* start_monitoring() while self.monitoring: return
StartAgain ==
    /\ callerPc \in {"started", "restarted"}
    /\ monitoring
    /\ earlier.returned < MaxStartAgain
    /\ earlier' = [earlier EXCEPT !.returned = @ + 1]
    /\ UNCHANGED <<monVars, mp, controlFile, ctlLoops, ctlReread, raceVars,
                   previously_mounted, last_control_path, pl, orchLog, cmdLog, proc,
                   world, resolved, web, search, loops>>

\* the join of stop_monitoring has returned: the thread has ended, or it is
\* where it can stay for more than the 2 seconds of the timeout
JoinReturned ==
    \/ pc = "exited"
    \/ pc = "sleep3"
    \/ pc = "readline" /\ procAlive /\ udevOut = 0

\* start_monitoring() after stop_monitoring()
Restart ==
    /\ callerPc = "stopped"
    /\ ~monitoring
    /\ JoinReturned
    /\ earlier' = [earlier EXCEPT !.pc = pc, !.procAlive = procAlive, !.udevOut = udevOut]
    /\ monitoring' = TRUE
    /\ callerPc' = "restarted"
    /\ pc' = "findMusic"
    /\ ctx' = "scan"
    /\ procAlive' = FALSE
    /\ udevOut' = 0
    /\ UNCHANGED <<current_music_usb, current_control_usb, music_usb, control_usb, fsVars,
                   monObs, mp, controlFile, ctlLoops, ctlReread, raceVars,
                   previously_mounted, last_control_path, pl, orchLog, cmdLog, proc,
                   world, resolved, web, search, loops>>

\* the udevadm process of the session before prints a line, or dies
E_UdevEmit ==
    /\ earlier.procAlive
    /\ earlier.udevOut < MaxUdevLines
    /\ earlier' = [earlier EXCEPT !.udevOut = @ + 1]
    /\ UNCHANGED <<monVars, mp, controlFile, ctlLoops, ctlReread, raceVars,
                   previously_mounted, last_control_path, pl, orchLog, cmdLog, proc,
                   world, resolved, web, search, loops>>

E_UdevExit ==
    /\ earlier.procAlive
    /\ earlier' = [earlier EXCEPT !.procAlive = FALSE]
    /\ UNCHANGED <<monVars, mp, controlFile, ctlLoops, ctlReread, raceVars,
                   previously_mounted, last_control_path, pl, orchLog, cmdLog, proc,
                   world, resolved, web, search, loops>>

\* the earlier thread in _monitor_udev_events: readline, and the test of
\* while self.monitoring
E_UdevLoop ==
    /\ \/ /\ earlier.pc = "readline"
          /\ IF earlier.udevOut > 0
                THEN \E line \in UdevLines :
                        earlier' = [earlier EXCEPT
                                       !.udevOut = @ - 1,
                                       !.pc = IF line = "ACTION" THEN "sleep1" ELSE "udevTop"]
                ELSE /\ ~earlier.procAlive
                     /\ earlier' = [earlier EXCEPT !.pc = "exited"]
       \/ /\ earlier.pc = "udevTop"
          /\ earlier' = [earlier EXCEPT !.pc = IF monitoring THEN "readline" ELSE "exited"]
    /\ UNCHANGED <<monVars, mp, controlFile, ctlLoops, ctlReread, raceVars,
                   previously_mounted, last_control_path, pl, orchLog, cmdLog, proc,
                   world, resolved, web, search, loops>>

\* the earlier thread in _fallback_polling: the sleep has ended and
\* self.monitoring is tested
E_PollLoop ==
    /\ earlier.pc = "sleep3"
    /\ earlier' = [earlier EXCEPT !.pc = IF monitoring THEN "pollCheck" ELSE "exited"]
    /\ UNCHANGED <<monVars, mp, controlFile, ctlLoops, ctlReread, raceVars,
                   previously_mounted, last_control_path, pl, orchLog, cmdLog, proc,
                   world, resolved, web, search, loops>>

\* the earlier thread runs _check_usb_changes
E_CheckUsbChanges ==
    /\ earlier.pc \in {"sleep1", "pollCheck"}
    /\ earlier' = [earlier EXCEPT !.pc = IF @ = "sleep1" THEN "udevTop" ELSE "sleep3"]
    /\ IF fsMusic # current_music_usb
          THEN HandleMusicUsbChange(fsMusic)
          ELSE UNCHANGED <<current_music_usb, musicLog>>
    /\ IF fsControl # current_control_usb
          THEN HandleControlUsbChange(fsControl)
          ELSE UNCHANGED <<current_control_usb, controlLog>>
    /\ musicSeen' = SeenAfter(musicSeen, fsMusic)
    /\ controlSeen' = SeenAfter(controlSeen, fsControl)
    /\ UNCHANGED <<fsVars, udevVars, monitoring, monCode, mp, controlFile, ctlLoops,
                   ctlReread, raceVars, previously_mounted, last_control_path, pl, orchLog,
                   cmdLog, proc, world, resolved, web, search, loops>>

\* a device is put in or pulled out, MaxRestartMounts times at most
R_MountChange == mountChanges < MaxRestartMounts /\ MountChange

RestartNext ==
    \/ StartMonitoring
    \/ StopMonitoring
    \/ MonThreadStep
    \/ R_MountChange
    \/ UdevEmit
    \/ UdevExit
    \/ StartAgain
    \/ Restart
    \/ E_UdevEmit
    \/ E_UdevExit
    \/ E_UdevLoop
    \/ E_PollLoop
    \/ E_CheckUsbChanges

(***************************************************************************)
(* Text.  A str is the sequence of its characters; the operators below are *)
(* the str methods and builtins that the interpreters of the control file  *)
(* call, on the characters that the texts of this model are made of.       *)
(***************************************************************************)
Whitespace == {" ", "\n", "\t"}

UpperCase == <<"A", "B", "C", "D", "E", "F", "G", "H", "I", "J", "K", "L", "M",
               "N", "O", "P", "Q", "R", "S", "T", "U", "V", "W", "X", "Y", "Z">>
LowerCase == <<"a", "b", "c", "d", "e", "f", "g", "h", "i", "j", "k", "l", "m",
               "n", "o", "p", "q", "r", "s", "t", "u", "v", "w", "x", "y", "z">>
Digits == <<"0", "1", "2", "3", "4", "5", "6", "7", "8", "9">>

LowerChar(c) ==
    IF \E i \in 1..26 : UpperCase[i] = c
       THEN LowerCase[CHOOSE i \in 1..26 : UpperCase[i] = c]
       ELSE c

UpperChar(c) ==
    IF \E i \in 1..26 : LowerCase[i] = c
       THEN UpperCase[CHOOSE i \in 1..26 : LowerCase[i] = c]
       ELSE c

\* str.lower() and str.upper()
Lower(str) == [i \in 1..Len(str) |-> LowerChar(str[i])]
Upper(str) == [i \in 1..Len(str) |-> UpperChar(str[i])]

RECURSIVE LStrip(_)
LStrip(str) ==
    IF str # <<>> /\ Head(str) \in Whitespace THEN LStrip(Tail(str)) ELSE str

RECURSIVE RStrip(_)
RStrip(str) ==
    IF str # <<>> /\ str[Len(str)] \in Whitespace
       THEN RStrip(SubSeq(str, 1, Len(str) - 1))
       ELSE str

\* str.strip()
Strip(str) == RStrip(LStrip(str))

\* str.startswith(prefix)
StartsWith(str, prefix) ==
    Len(prefix) <= Len(str) /\ SubSeq(str, 1, Len(prefix)) = prefix

\* str[n:]
From(str, n) == SubSeq(str, n + 1, Len(str))

\* str.split(sep) for a separator of one character
RECURSIVE Split(_, _)
Split(str, sep) ==
    IF \A i \in 1..Len(str) : str[i] # sep
       THEN <<str>>
       ELSE LET k == CHOOSE i \in 1..Len(str) :
                        str[i] = sep /\ \A j \in 1..(i - 1) : str[j] # sep
            IN  <<SubSeq(str, 1, k - 1)>> \o Split(From(str, k), sep)

\* str.replace(old, ""): every occurrence of old, left to right, is dropped
RECURSIVE Remove(_, _)
Remove(str, old) ==
    IF Len(str) < Len(old)
       THEN str
       ELSE IF StartsWith(str, old)
               THEN Remove(From(str, Len(old)), old)
               ELSE <<Head(str)>> \o Remove(Tail(str), old)

IsDigit(c) == \E i \in 1..10 : Digits[i] = c
DigitValue(c) == (CHOOSE i \in 1..10 : Digits[i] = c) - 1

RECURSIVE Decimal(_)
Decimal(ds) ==
    IF ds = <<>> THEN 0 ELSE 10 * Decimal(SubSeq(ds, 1, Len(ds) - 1)) + DigitValue(ds[Len(ds)])

\* int(str): <<TRUE, n>>, or <<FALSE, 0>> for ValueError.  int() accepts
\* whitespace around the number and a sign before it.
PyInt(str) ==
    LET t == Strip(str)
        signed == t # <<>> /\ t[1] \in {"+", "-"}
        ds == IF signed THEN Tail(t) ELSE t
    IN  IF ds # <<>> /\ \A i \in 1..Len(ds) : IsDigit(ds[i])
           THEN <<TRUE, IF signed /\ t[1] = "-" THEN 0 - Decimal(ds) ELSE Decimal(ds)>>
           ELSE <<FALSE, 0>>

\* the literals of the interpreters
Str_play == <<"p", "l", "a", "y">>
Str_pause == <<"p", "a", "u", "s", "e">>
Str_stop == <<"s", "t", "o", "p">>
Str_next == <<"n", "e", "x", "t">>
Str_previous == <<"p", "r", "e", "v", "i", "o", "u", "s">>
Str_volume == <<"v", "o", "l", "u", "m", "e", ":">>
Str_album == <<"a", "l", "b", "u", "m", ":">>
Str_track == <<"t", "r", "a", "c", "k", ":">>
Str_Album == <<"A", "l", "b", "u", "m", ":">>
Str_Track == <<"T", "r", "a", "c", "k", ":">>

\* the conditions of _process_control_file: the command they find in the text
\* of the file.  A name is the str handed on; a volume is int(str).
Command(text) ==
    LET content == Strip(text)
        lower == Lower(content)
    IN  CASE content = <<>> -> <<>>
          [] lower = Str_play -> <<"play">>
          [] lower = Str_pause -> <<"pause">>
          [] lower = Str_stop -> <<"stop">>
          [] lower = Str_next -> <<"next">>
          [] lower = Str_previous -> <<"previous">>
          [] StartsWith(lower, Str_volume) ->
               LET vol == PyInt(Split(content, ":")[2])
               IN  IF vol[1] THEN <<"volume:", vol[2]>> ELSE <<"invalid volume", content>>
          [] StartsWith(lower, Str_album) -> <<"album:", Strip(From(content, 6))>>
          [] StartsWith(lower, Str_track) -> <<"track:", Strip(From(content, 6))>>
          [] OTHER -> <<"unknown", content>>

(***************************************************************************)
(* music_player.MusicPlayer                                                *)
(*                                                                         *)
(* The object is the record mp, its fields named as in __init__; vlc_state *)
(* and vlc_media are the state and the media of self.media_player.  Each   *)
(* method is an operator from the object before the call to the object     *)
(* after it.  `ok` is the engine's answer to play() on a media it is given. *)
(***************************************************************************)
\* None for a field that holds a path, an album name or a list
NoPath == <<>>

\* What is on a music device: one album folder with two audio files, listed here
\* as sorted(os.listdir(folder)) gives them.  A file name is its characters,
\* the extension being one of them.
AlbumDir == "Jazz"
Files == << <<"a", ".mp3">>, <<"a", "b", ".mp3">> >>
AlbumFolder(root) == <<root, AlbumDir>>
TrackPath(root, file) == <<root, AlbumDir, file>>
Root(path) == path[1]
Basename(path) == path[Len(path)]
Dirname(path) == SubSeq(path, 1, Len(path) - 1)

\* the orders in which os.walk may hand out the files of the folder
WalkOrders == {<<1, 2>>, <<2, 1>>}

\* the names a track: command may ask for
TrackNames == {<<"a">>, <<"b">>, <<"c">>}

\* the contents the control file may have, as f.read().strip().lower() sees
\* them: the empty text, a word, or album: / track: and the text after it
TrackCommands == {<<"track:", n>> : n \in TrackNames}
Contents ==
    {<<>>, <<"play">>, <<"pause">>, <<"stop">>, <<"next">>, <<"previous">>,
     <<"album:", <<AlbumDir>>>>, <<"album:", <<"Rock">>>>, <<"hello">>} \cup TrackCommands

\* A stored volume is the number num/den, written <<num, den>>: config.py
\* reads VOLUME_LEVEL as the float 0.7, and MusicPlayer.__init__ stores it and
\* hands it to set_volume, where audio_set_volume refuses a float; the
\* exception is caught, so the object keeps 0.7 and the engine its own volume.
VOLUME_LEVEL == <<7, 10>>
VlcDefaultVolume == 100

MPObject ==
    [current_album |-> NoPath,
     current_album_folder |-> NoPath,
     current_album_tracks |-> <<>>,
     current_track_index |-> 0,
     current_track_path |-> NoPath,
     repeat_mode |-> TRUE,
     single_track_mode |-> FALSE,
     music_source |-> None,
     control_source |-> None,
     control_file_last_modified |-> 0,
     control_monitor_running |-> FALSE,
     vlc_state |-> "NothingSpecial",
     vlc_media |-> NoPath,
     volume |-> VOLUME_LEVEL,
     vlc_volume |-> VlcDefaultVolume,
     stop_called |-> FALSE,
     raised |-> FALSE,
     resumed |-> FALSE,
     logged |-> ""]

\* stop_called, raised, resumed and logged are history, not fields of the
\* object: whether the call in progress has called media_player.stop(), has
\* raised an exception (which _process_control_file catches and logs), has
\* resumed a paused engine, and which complaint about the command it has
\* logged.  Every call starts with them unset.
Call(s) ==
    [s EXCEPT !.stop_called = FALSE, !.raised = FALSE, !.resumed = FALSE, !.logged = ""]

\* ---- the engine: libvlc's media player ----
\* media_player.stop()
VlcStop(s) == [s EXCEPT !.vlc_state = "Stopped", !.stop_called = TRUE]

\* media_player.pause() toggles: it pauses a playing player, resumes a paused
\* one and does nothing without a running input
VlcPause(s) ==
    CASE s.vlc_state = "Playing" -> [s EXCEPT !.vlc_state = "Paused"]
      [] s.vlc_state = "Paused" -> [s EXCEPT !.vlc_state = "Playing"]
      [] OTHER -> s

\* ---- MusicPlayer methods ----
IsPlaying(s) == s.vlc_state = "Playing"

\* _play_media: set_media, then play(); play() answers 0 or -1
PlayMedia(s, media_path, ok) ==
    [s EXCEPT !.vlc_media = media_path,
              !.vlc_state = IF ok THEN "Playing" ELSE "NothingSpecial"]

PlayTrackAtIndex(s, index, ok) ==
    IF s.current_album_tracks = <<>> \/ index < 0 \/ index >= Len(s.current_album_tracks)
       THEN s
       ELSE PlayMedia([s EXCEPT !.current_track_index = index,
                                !.current_track_path = s.current_album_tracks[index + 1]],
                      s.current_album_tracks[index + 1], ok)

StopPlayback(s) == VlcStop(s)

PausePlayback(s) == VlcPause(s)

\* play_album: find_album_folder is utils.find_album_folder(album_name), which
\* takes one argument; the call with two raises TypeError before any field is
\* written, and _process_control_file catches it
PlayAlbum(s, album_name) ==
    IF s.music_source = None THEN s ELSE [s EXCEPT !.raised = TRUE]

\* _load_default_album: the first directory of os.walk that holds audio files
LoadDefaultAlbum(s, ok) ==
    IF s.music_source = None
       THEN s
       ELSE PlayTrackAtIndex(
                [s EXCEPT !.current_album = <<AlbumDir>>,
                          !.current_album_folder = AlbumFolder(s.music_source),
                          !.current_album_tracks =
                              [i \in 1..Len(Files) |-> TrackPath(s.music_source, Files[i])],
                          !.current_track_index = 0,
                          !.single_track_mode = FALSE],
                0, ok)

\* track_name.lower() in file.lower()
IsInfix(name, file) ==
    \E i \in 0..(Len(file) - Len(name)) : SubSeq(file, i + 1, i + Len(name)) = name

IsPrefix(name, file) ==
    Len(name) <= Len(file) /\ SubSeq(file, 1, Len(name)) = name

\* match_quality of _find_tracks_by_name
MatchQuality(name, file) ==
    CASE file = Append(name, ".mp3") \/ file = Append(name, ".flac") -> 0
      [] SubSeq(file, 1, Len(file) - 1) = name -> 1
      [] IsPrefix(name, file) -> 2
      [] OTHER -> 3

\* _find_tracks_by_name: the matching files in os.walk order, then a stable
\* sort by match_quality
FindTracks(walked, name) ==
    LET track_lower == Lower(name)
        found == SelectSeq(walked, LAMBDA path : IsInfix(track_lower, Lower(Basename(path))))
        rank(q) == SelectSeq(found, LAMBDA path :
                                MatchQuality(track_lower, Lower(Basename(path))) = q)
    IN  rank(0) \o rank(1) \o rank(2) \o rank(3)

\* _find_tracks_by_name on the files of the album folder
FindTracksByName(root, name, order) ==
    FindTracks([i \in 1..Len(order) |-> TrackPath(root, Files[order[i]])], name)

\* a session of one track that is not marked as single-track
InstallSingleTrackUnmarked(s, track_path) ==
    [s EXCEPT !.current_album = <<"Single Track", Basename(track_path)>>,
              !.current_album_folder = Dirname(track_path),
              !.current_album_tracks = <<track_path>>,
              !.current_track_index = 0,
              !.current_track_path = track_path]

\* the assignments of play_track_by_name between the search and _play_media
InstallSingleTrack(s, track_path) ==
    [s EXCEPT !.current_album = <<"Single Track", Basename(track_path)>>,
              !.current_album_folder = Dirname(track_path),
              !.current_album_tracks = <<track_path>>,
              !.current_track_index = 0,
              !.current_track_path = track_path,
              !.single_track_mode = TRUE]

\* play_track_by_name after the search: the first of the tracks found
PlayFirstFound(s, found_tracks, ok) ==
    IF found_tracks = <<>>
       THEN s
       ELSE PlayMedia(InstallSingleTrack(s, found_tracks[1]), found_tracks[1], ok)

PlayTrackByName(s, track_name, ok, order) ==
    IF s.music_source = None
       THEN s
       ELSE PlayFirstFound(s, FindTracksByName(s.music_source, track_name, order), ok)

\* a resume that starts the kept playlist from its first track
ResumePlaybackFromStart(s, ok) ==
    CASE s.vlc_state = "Paused" -> [s EXCEPT !.vlc_state = "Playing", !.resumed = TRUE]
      [] IsPlaying(s) -> s
      [] s.current_album_tracks # <<>> /\ s.current_track_index >= 0 ->
            PlayTrackAtIndex(s, 0, ok)
      [] s.music_source # None -> LoadDefaultAlbum(s, ok)
      [] OTHER -> s

ResumePlayback(s, ok) ==
    CASE s.vlc_state = "Paused" -> [s EXCEPT !.vlc_state = "Playing", !.resumed = TRUE]
      [] IsPlaying(s) -> s
      [] s.current_album_tracks # <<>> /\ s.current_track_index >= 0 ->
            PlayTrackAtIndex(s, s.current_track_index, ok)
      [] s.music_source # None -> LoadDefaultAlbum(s, ok)
      [] OTHER -> s

TogglePlayPause(s, ok) ==
    IF IsPlaying(s) THEN PausePlayback(s) ELSE ResumePlayback(s, ok)

NextTrack(s, ok) ==
    IF s.current_album_tracks = <<>>
       THEN s
       ELSE LET next_index == s.current_track_index + 1
            IN  IF next_index >= Len(s.current_album_tracks)
                   THEN IF s.repeat_mode THEN PlayTrackAtIndex(s, 0, ok) ELSE s
                   ELSE PlayTrackAtIndex(s, next_index, ok)

PreviousTrack(s, ok) ==
    IF s.current_album_tracks = <<>>
       THEN s
       ELSE LET prev_index == s.current_track_index - 1
            IN  IF prev_index < 0
                   THEN IF s.repeat_mode
                           THEN PlayTrackAtIndex(s, Len(s.current_album_tracks) - 1, ok)
                           ELSE s
                   ELSE PlayTrackAtIndex(s, prev_index, ok)

UpdateRepeatMode(s, repeat_enabled) == [s EXCEPT !.repeat_mode = repeat_enabled]

\* a handler that goes to the next track in single-track mode too
OnTrackEndAlwaysNext(s, ok) ==
    CASE s.repeat_mode \/ s.current_track_index < Len(s.current_album_tracks) - 1 ->
            NextTrack(s, ok)
      [] OTHER -> s

\* _on_track_end, called by VLC at MediaPlayerEndReached
OnTrackEnd(s, ok) ==
    CASE s.single_track_mode -> PlayTrackAtIndex(s, s.current_track_index, ok)
      [] s.repeat_mode \/ s.current_track_index < Len(s.current_album_tracks) - 1 ->
            NextTrack(s, ok)
      [] OTHER -> s

\* set_music_source(music_path)
SetMusicSource(s, music_path) ==
    IF music_path # s.music_source
       THEN IF music_path # None
               THEN [s EXCEPT !.music_source = music_path]
               ELSE [StopPlayback([s EXCEPT !.music_source = music_path])
                        EXCEPT !.current_album = NoPath,
                               !.current_album_folder = NoPath,
                               !.current_album_tracks = <<>>]
       ELSE s

\* set_volume(volume) with an int
SetVolume(s, volume) ==
    LET clamped == IF volume > 100 THEN 100 ELSE IF volume < 0 THEN 0 ELSE volume
    IN  [s EXCEPT !.vlc_volume = clamped, !.volume = <<clamped, 1>>]

\* _process_control_file on the command its conditions find in the file
ProcessControlFile(s, content, ok, order) ==
    CASE content = <<>> -> s
      [] content = <<"play">> -> TogglePlayPause(s, ok)
      [] content = <<"pause">> -> PausePlayback(s)
      [] content = <<"stop">> -> StopPlayback(s)
      [] content = <<"next">> -> NextTrack(s, ok)
      [] content = <<"previous">> -> PreviousTrack(s, ok)
      [] content[1] = "volume:" -> SetVolume(s, content[2])
      [] content[1] = "invalid volume" -> [s EXCEPT !.logged = "Invalid volume command"]
      [] content[1] = "album:" -> PlayAlbum(s, content[2])
      [] content[1] = "track:" -> PlayTrackByName(s, content[2], ok, order)
      [] OTHER -> [s EXCEPT !.logged = "Unknown control command"]

(***************************************************************************)
(* player.Player, the object that main.py and app.py drive.  vlc_state is  *)
(* the state of its media list player, media_list and playback_mode what   *)
(* that player was given.                                                  *)
(***************************************************************************)
DEFAULT_VOLUME == 70

PlayerObject ==
    [current_album |-> NoPath,
     current_album_folder |-> NoPath,
     current_album_tracks |-> <<>>,
     current_track_path |-> NoPath,
     media_list |-> <<>>,
     playback_mode |-> "default",
     list_index |-> 0,
     vlc_state |-> "NothingSpecial",
     volume |-> DEFAULT_VOLUME,
     vlc_volume |-> DEFAULT_VOLUME]

\* repeat_playback of player.py: the module's own global, which nothing in
\* the module assigns again
PlayerRepeatPlayback == TRUE

PlaybackMode == IF PlayerRepeatPlayback THEN "loop" ELSE "default"

\* Player.stop
PlayerStop(s) ==
    [s EXCEPT !.vlc_state = "Stopped",
              !.current_album = NoPath,
              !.current_album_folder = NoPath,
              !.current_album_tracks = <<>>,
              !.current_track_path = NoPath]

\* Player.play_album(folder_path): the audio files that os.walk finds under the
\* folder, sorted
PlayerPlayAlbum(s, folder_path, ok) ==
    LET audio_files == [i \in 1..Len(Files) |-> folder_path \o <<Files[i]>>]
    IN  IF audio_files = <<>>
           THEN s
           ELSE [s EXCEPT !.current_album = <<Basename(folder_path)>>,
                          !.current_album_folder = folder_path,
                          !.current_album_tracks = audio_files,
                          !.media_list = audio_files,
                          !.list_index = 0,
                          !.playback_mode = PlaybackMode,
                          !.vlc_state = IF ok THEN "Playing" ELSE "NothingSpecial"]

\* Player.play_single(track_path)
PlayerPlaySingle(s, track_path, ok) ==
    [s EXCEPT !.current_album = NoPath,
              !.current_album_folder = NoPath,
              !.current_album_tracks = <<>>,
              !.current_track_path = track_path,
              !.media_list = IF PlayerRepeatPlayback
                                THEN <<track_path, track_path>>
                                ELSE <<track_path>>,
              !.list_index = 0,
              !.playback_mode = PlaybackMode,
              !.vlc_state = IF ok THEN "Playing" ELSE "NothingSpecial"]

\* Player.set_volume(volume): the object and what the call returns
PlayerSetVolume(s, volume) ==
    IF 0 <= volume /\ volume <= 100
       THEN <<[s EXCEPT !.volume = volume, !.vlc_volume = volume], TRUE>>
       ELSE <<s, FALSE>>

\* Player.toggle_play_pause: play() starts what the media player holds
PlayerTogglePlayPause(s) ==
    CASE s.vlc_state = "Playing" -> [s EXCEPT !.vlc_state = "Paused"]
      [] s.vlc_state = "Paused" -> [s EXCEPT !.vlc_state = "Playing"]
      [] OTHER -> IF s.media_list = <<>> THEN s ELSE [s EXCEPT !.vlc_state = "Playing"]

\* Player.next_track: media_list_player.next() plays the next item of the
\* list, the first after the last in loop mode, none after the last otherwise
PlayerNextTrack(s) ==
    IF s.media_list = <<>> THEN s
    ELSE IF s.list_index + 1 < Len(s.media_list)
            THEN [s EXCEPT !.list_index = @ + 1, !.vlc_state = "Playing"]
    ELSE IF s.playback_mode = "loop"
            THEN [s EXCEPT !.list_index = 0, !.vlc_state = "Playing"]
    ELSE s

\* Player.previous_track: media_list_player.previous()
PlayerPreviousTrack(s) ==
    IF s.media_list = <<>> THEN s
    ELSE IF s.list_index > 0
            THEN [s EXCEPT !.list_index = @ - 1, !.vlc_state = "Playing"]
    ELSE IF s.playback_mode = "loop"
            THEN [s EXCEPT !.list_index = Len(s.media_list) - 1, !.vlc_state = "Playing"]
    ELSE s

NoCommand == [by |-> "", text |-> <<>>, command |-> <<>>, result |-> TRUE]

\* _find_tracks_by_name has not been called
NoSearch == [walked |-> <<>>, name |-> <<>>, asked |-> FALSE, found |-> <<>>]

\* no request is being served
NoRequest == [op |-> "", by |-> "", attempt |-> 0, served |-> 0, mounts |-> 0]

Running == [state |-> "running", cause |-> "", was |-> ""]

\* no control monitor thread has been started, the control file never read
LoopThreads == 1..MaxLoopThreads
LoopVersions == 1..(MaxLoopEdits + 1)
NoLoops ==
    [pc |-> [t \in LoopThreads |-> "none"],
     current_mtime |-> [t \in LoopThreads |-> 0],
     content |-> [t \in LoopThreads |-> <<>>],
     caller |-> "idle",
     control_monitor_thread |-> 0,
     executed |-> [v \in LoopVersions |-> 0],
     orphan |-> FALSE]

\* nothing mounted, no environment variable set, no resolver called
NoWorld ==
    [exists |-> {}, fault |-> [path |-> None, kind |-> ""], permission_fix |-> FALSE,
     control_file |-> {}, env_music |-> None, env_control |-> None, listdir |-> <<>>]
Unresolved == [by |-> "", path |-> None]

OrchIdleButWorld ==
    /\ cmdLog = NoCommand
    /\ proc = Running
    /\ previously_mounted = FALSE
    /\ last_control_path = None
    /\ pl = PlayerObject
    /\ orchLog = <<>>
    /\ web = NoRequest
    /\ search = NoSearch
    /\ earlier = NoEarlier
    /\ loops = NoLoops

OrchIdle ==
    /\ OrchIdleButWorld
    /\ world = NoWorld
    /\ resolved = Unresolved

(***************************************************************************)
(* The MusicPlayer in use: its owner hands it the resolved paths, its      *)
(* control monitor thread reads the control file, VLC reports the end of a *)
(* track, the web layer toggles repeat.  Each call runs to its end before  *)
(* the next one starts.                                                    *)
(***************************************************************************)
PlayerIdle ==
    /\ mp = MPObject
    /\ controlFile = [content |-> <<>>, mtime |-> 0]
    /\ ctlLoops = 0
    /\ ctlReread = "none"
    /\ vlcPc = "idle"
    /\ vlcLocal = 0
    /\ ctlPc = "idle"
    /\ ctlLocal = NoPath
    /\ OrchIdle

MonIdle ==
    /\ fsMusic = None
    /\ fsControl = None
    /\ mountChanges = 0
    /\ procAlive = FALSE
    /\ udevOut = 0
    /\ monitoring = FALSE
    /\ current_music_usb = None
    /\ current_control_usb = None
    /\ callerPc = "new"
    /\ pc = "init"
    /\ ctx = "scan"
    /\ music_usb = None
    /\ control_usb = None
    /\ musicLog = <<>>
    /\ controlLog = <<>>
    /\ musicSeen = <<>>
    /\ controlSeen = <<>>

\* the control file as the card holds it when first inserted: a real file's
\* mtime is after the epoch
MPInit ==
    /\ mp = MPObject
    /\ \E c \in Contents : controlFile = [content |-> c, mtime |-> 1]
    /\ ctlLoops = 0
    /\ ctlReread = "none"
    /\ vlcPc = "idle"
    /\ vlcLocal = 0
    /\ ctlPc = "idle"
    /\ ctlLocal = NoPath
    /\ OrchIdle
    /\ MonIdle

\* the owner calls set_music_source(music_path)
MP_SetMusicSource ==
    /\ \E music_path \in MusicPathOpt : mp' = SetMusicSource(Call(mp), music_path)
    /\ UNCHANGED <<controlFile, ctlLoops, ctlReread, raceVars, monVars, orchVars>>

\* set_control_source(control_path), with start_control_monitoring and
\* stop_control_monitoring; the join of stop_control_monitoring gives up after
\* 2 s, so the loop thread ends in a step of its own
MP_SetControlSource ==
    /\ \E control_path \in ControlPathOpt :
          IF control_path # mp.control_source
             THEN IF control_path # None
                     THEN /\ ctlReread' = "pending"
                          /\ IF mp.control_monitor_running
                                THEN /\ mp' = [Call(mp) EXCEPT !.control_source = control_path]
                                     /\ ctlLoops' = ctlLoops
                                ELSE /\ ctlLoops < MaxCtlLoops
                                     /\ mp' = [Call(mp) EXCEPT !.control_source = control_path,
                                                                !.control_monitor_running = TRUE]
                                     /\ ctlLoops' = ctlLoops + 1
                     ELSE /\ ctlReread' = "none"
                          /\ mp' = [Call(mp) EXCEPT !.control_source = control_path,
                                                     !.control_monitor_running = FALSE]
                          /\ ctlLoops' = ctlLoops
             ELSE UNCHANGED <<mp, ctlLoops, ctlReread>>
    /\ UNCHANGED <<controlFile, raceVars, monVars, orchVars>>

\* one turn of the while loop of _control_monitor_loop, in any live loop thread
MP_ControlMonitorLoop ==
    /\ ctlLoops > 0
    /\ mp.control_monitor_running
    /\ mp.control_source # None
    /\ IF controlFile.mtime > mp.control_file_last_modified
          THEN /\ \E ok \in BOOLEAN, order \in WalkOrders :
                     mp' = ProcessControlFile(
                               [Call(mp) EXCEPT !.control_file_last_modified = controlFile.mtime],
                               controlFile.content, ok, order)
               /\ ctlReread' = "read"
          ELSE /\ mp' = Call(mp)
               /\ ctlReread' = IF ctlReread = "pending" THEN "skipped" ELSE ctlReread
    /\ UNCHANGED <<controlFile, ctlLoops, raceVars, monVars, orchVars>>

\* the while condition fails and the loop thread ends
MP_ControlMonitorExit ==
    /\ ctlLoops > 0
    /\ ~(mp.control_monitor_running /\ mp.control_source # None)
    /\ ctlLoops' = ctlLoops - 1
    /\ UNCHANGED <<mp, controlFile, ctlReread, raceVars, monVars, orchVars>>

\* the user (or /write_control of the web layer) rewrites the control file
MP_EditControlFile ==
    /\ controlFile.mtime <= MaxFileEdits
    /\ \E c \in Contents :
          controlFile' = [content |-> c, mtime |-> controlFile.mtime + 1]
    /\ UNCHANGED <<mp, ctlLoops, ctlReread, raceVars, monVars, orchVars>>

\* the playing track reaches its end: VLC goes to Ended and calls _on_track_end
MP_TrackEnd ==
    /\ mp.vlc_state = "Playing"
    /\ \E ok \in BOOLEAN : mp' = OnTrackEnd([Call(mp) EXCEPT !.vlc_state = "Ended"], ok)
    /\ UNCHANGED <<controlFile, ctlLoops, ctlReread, raceVars, monVars, orchVars>>

\* /api/toggle_repeat_playback calls player.update_repeat_mode
MP_UpdateRepeatMode ==
    /\ mp' = UpdateRepeatMode(Call(mp), ~mp.repeat_mode)
    /\ UNCHANGED <<controlFile, ctlLoops, ctlReread, raceVars, monVars, orchVars>>

MPNext ==
    \/ MP_SetMusicSource
    \/ MP_SetControlSource
    \/ MP_ControlMonitorLoop
    \/ MP_ControlMonitorExit
    \/ MP_EditControlFile
    \/ MP_TrackEnd
    \/ MP_UpdateRepeatMode

SpecMP == MPInit /\ [][MPNext]_vars

(***************************************************************************)
(* The same player with its threads interleaved.  _on_track_end runs on    *)
(* VLC's event thread, the commands of the control file on the control     *)
(* monitor thread, set_music_source / set_control_source on their caller's *)
(* thread; MusicPlayer holds no lock, so a thread may be switched out      *)
(* between any two statements.  The steps below cut _on_track_end and      *)
(* play_track_by_name where they wait or pass from the session to the      *)
(* engine, and _play_track_at_index of _on_track_end between its           *)
(* statements; every other call is still one step.                         *)
(***************************************************************************)
\* the playing track ends: VLC's state is Ended and _on_track_end is entered
R_TrackEndBegin ==
    /\ vlcPc = "idle"
    /\ mp.vlc_state = "Playing"
    /\ mp' = [Call(mp) EXCEPT !.vlc_state = "Ended"]
    /\ vlcPc' = "decide"
    /\ UNCHANGED <<controlFile, ctlLoops, ctlReread, vlcLocal, ctlPc, ctlLocal, monVars, orchVars>>

\* the if / elif of _on_track_end
R_TrackEndDecide ==
    /\ vlcPc = "decide"
    /\ vlcPc' = CASE mp.single_track_mode -> "sleep"
                  [] mp.repeat_mode
                     \/ mp.current_track_index < Len(mp.current_album_tracks) - 1 -> "next"
                  [] OTHER -> "idle"
    /\ UNCHANGED <<mp, controlFile, ctlLoops, ctlReread, vlcLocal, ctlPc, ctlLocal, monVars, orchVars>>

\* the first statement of _play_track_at_index: the test of index
InvalidIndex(s, index) ==
    s.current_album_tracks = <<>> \/ index < 0 \/ index >= Len(s.current_album_tracks)

\* _on_track_end enters _play_track_at_index(index) and tests index
R_EnterPlayTrackAtIndex(index) ==
    /\ IF InvalidIndex(mp, index)
          THEN vlcPc' = "idle" /\ vlcLocal' = 0
          ELSE vlcPc' = "setIndex" /\ vlcLocal' = index
    /\ UNCHANGED <<mp, controlFile, ctlLoops, ctlReread, ctlPc, ctlLocal, monVars, orchVars>>

\* after time.sleep(0.5): self._play_track_at_index(self.current_track_index)
R_TrackEndReplay ==
    /\ vlcPc = "sleep"
    /\ R_EnterPlayTrackAtIndex(mp.current_track_index)

\* self.next_track(), up to the test of index in _play_track_at_index; -1 is
\* an index that next_track does not play
R_TrackEndNext ==
    /\ vlcPc = "next"
    /\ LET next_index == mp.current_track_index + 1
       IN  R_EnterPlayTrackAtIndex(
               CASE mp.current_album_tracks = <<>> -> -1
                 [] next_index < Len(mp.current_album_tracks) -> next_index
                 [] mp.repeat_mode -> 0
                 [] OTHER -> -1)

\* _play_track_at_index: self.current_track_index = index
R_SetIndex ==
    /\ vlcPc = "setIndex"
    /\ mp' = [mp EXCEPT !.current_track_index = vlcLocal]
    /\ vlcPc' = "readTrack"
    /\ UNCHANGED <<controlFile, ctlLoops, ctlReread, vlcLocal, ctlPc, ctlLocal, monVars, orchVars>>

\* _play_track_at_index: track_path = self.current_album_tracks[index], then
\* current_track_path and _play_media; an IndexError of the subscript is
\* caught and logged by _on_track_end
R_ReadTrack ==
    /\ vlcPc = "readTrack"
    /\ IF vlcLocal >= Len(mp.current_album_tracks)
          THEN mp' = [mp EXCEPT !.raised = TRUE]
          ELSE \E ok \in BOOLEAN :
                  mp' = PlayMedia([mp EXCEPT !.current_track_path =
                                                 mp.current_album_tracks[vlcLocal + 1]],
                                  mp.current_album_tracks[vlcLocal + 1], ok)
    /\ vlcPc' = "idle"
    /\ vlcLocal' = 0
    /\ UNCHANGED <<controlFile, ctlLoops, ctlReread, ctlPc, ctlLocal, monVars, orchVars>>

\* a turn of _control_monitor_loop up to the read of the file's content
R_CtlRead ==
    /\ ctlPc = "idle"
    /\ ctlLoops > 0
    /\ mp.control_monitor_running
    /\ mp.control_source # None
    /\ IF controlFile.mtime > mp.control_file_last_modified
          THEN /\ mp' = [Call(mp) EXCEPT !.control_file_last_modified = controlFile.mtime]
               /\ ctlLocal' = controlFile.content
               /\ ctlPc' = "dispatch"
               /\ ctlReread' = "read"
          ELSE /\ ctlReread = "pending"
               /\ ctlReread' = "skipped"
               /\ UNCHANGED <<mp, ctlPc, ctlLocal>>
    /\ UNCHANGED <<controlFile, ctlLoops, vlcPc, vlcLocal, monVars, orchVars>>

\* the if / elif chain of _process_control_file; for track: the search of
\* play_track_by_name, its result kept in track_path
R_CtlDispatch ==
    /\ ctlPc = "dispatch"
    /\ \E ok \in BOOLEAN, order \in WalkOrders :
          LET found_tracks ==
                  IF ctlLocal \in TrackCommands /\ mp.music_source # None
                     THEN FindTracksByName(mp.music_source, ctlLocal[2], order)
                     ELSE <<>>
          IN  IF found_tracks # <<>>
                 THEN /\ ctlLocal' = found_tracks[1]
                      /\ ctlPc' = "install"
                      /\ mp' = mp
                 ELSE /\ mp' = ProcessControlFile(mp, ctlLocal, ok, order)
                      /\ ctlPc' = "idle"
                      /\ ctlLocal' = NoPath
    /\ UNCHANGED <<controlFile, ctlLoops, ctlReread, vlcPc, vlcLocal, monVars, orchVars>>

\* play_track_by_name writes the single-track session
R_CtlInstall ==
    /\ ctlPc = "install"
    /\ mp' = InstallSingleTrack(mp, ctlLocal)
    /\ ctlPc' = "playMedia"
    /\ UNCHANGED <<controlFile, ctlLoops, ctlReread, vlcPc, vlcLocal, ctlLocal, monVars, orchVars>>

\* play_track_by_name calls self._play_media(track_path)
R_CtlPlayMedia ==
    /\ ctlPc = "playMedia"
    /\ \E ok \in BOOLEAN : mp' = PlayMedia(mp, ctlLocal, ok)
    /\ ctlPc' = "idle"
    /\ ctlLocal' = NoPath
    /\ UNCHANGED <<controlFile, ctlLoops, ctlReread, vlcPc, vlcLocal, monVars, orchVars>>

\* the control file is rewritten while the threads run
R_EditControlFile ==
    /\ controlFile.mtime <= MaxRaceEdits
    /\ MP_EditControlFile

\* the while condition fails at the top of the loop and the thread ends
R_ControlMonitorExit ==
    /\ ctlPc = "idle"
    /\ MP_ControlMonitorExit

MPRaceNext ==
    \/ MP_SetMusicSource
    \/ MP_SetControlSource
    \/ R_EditControlFile
    \/ MP_UpdateRepeatMode
    \/ R_ControlMonitorExit
    \/ R_TrackEndBegin
    \/ R_TrackEndDecide
    \/ R_TrackEndReplay
    \/ R_TrackEndNext
    \/ R_SetIndex
    \/ R_ReadTrack
    \/ R_CtlRead
    \/ R_CtlDispatch
    \/ R_CtlInstall
    \/ R_CtlPlayMedia

SpecMPRace == MPInit /\ [][MPRaceNext]_vars

(***************************************************************************)
(* set_control_source and the threads it starts, statement by statement.   *)
(* loops.pc[t] is where thread t is in _control_monitor_loop ("none": not   *)
(* started, or returned), loops.current_mtime[t] and loops.content[t] its  *)
(* locals, loops.control_monitor_thread the thread started last,           *)
(* loops.caller where the caller of set_control_source is.  The mtime of   *)
(* the control file stands for the modification: loops.executed[v] counts  *)
(* the times the file was read for execution at mtime v, loops.orphan      *)
(* records such a read with control_source None after set_control_source   *)
(* had returned.                                                           *)
(***************************************************************************)
loopRest ==
    <<ctlLoops, ctlReread, raceVars, monVars, previously_mounted, last_control_path, pl,
      orchLog, cmdLog, proc, world, resolved, web, search, earlier>>

LoopContents == {<<>>, <<"play">>, <<"stop">>}

Alive(t) == loops.pc[t] # "none"

\* thread.join(timeout=2): the thread has returned, or the 2 s pass while it
\* executes a command
JoinEnds(t) == ~Alive(t) \/ loops.pc[t] = "execute"

\* set_control_source(control_path) up to the join of
\* stop_control_monitoring; start_control_monitoring starts a new thread
\* unless control_monitor_running is set
L_SetControlSource ==
    /\ loops.caller = "idle"
    /\ \E control_path \in ControlPathOpt :
          /\ control_path # mp.control_source
          /\ IF control_path # None
                THEN IF mp.control_monitor_running
                        THEN /\ mp' = [mp EXCEPT !.control_source = control_path]
                             /\ loops' = loops
                        ELSE \E t \in LoopThreads :
                                /\ ~Alive(t)
                                /\ \A u \in LoopThreads : u < t => Alive(u)
                                /\ mp' = [mp EXCEPT !.control_source = control_path,
                                                    !.control_monitor_running = TRUE]
                                /\ loops' = [loops EXCEPT !.pc[t] = "top",
                                                          !.control_monitor_thread = t]
                ELSE /\ mp' = [mp EXCEPT !.control_source = control_path,
                                         !.control_monitor_running = FALSE]
                     /\ loops' = [loops EXCEPT !.caller =
                                      IF loops.control_monitor_thread # 0 THEN "join" ELSE "idle"]
    /\ UNCHANGED <<controlFile, loopRest>>

\* self.control_monitor_thread.join(timeout=2) returns
L_JoinReturns ==
    /\ loops.caller = "join"
    /\ JoinEnds(loops.control_monitor_thread)
    /\ loops' = [loops EXCEPT !.caller = "idle"]
    /\ UNCHANGED <<mp, controlFile, loopRest>>

\* while self.control_monitor_running and self.control_source, then
\* current_mtime = os.path.getmtime(control_file_path)
L_Top(t) ==
    /\ loops.pc[t] = "top"
    /\ IF mp.control_monitor_running /\ mp.control_source # None
          THEN loops' = [loops EXCEPT !.pc[t] = "compare",
                                      !.current_mtime[t] = controlFile.mtime]
          ELSE loops' = [loops EXCEPT !.pc[t] = "none", !.current_mtime[t] = 0]
    /\ UNCHANGED <<mp, controlFile, loopRest>>

\* if current_mtime > self.control_file_last_modified
L_Compare(t) ==
    /\ loops.pc[t] = "compare"
    /\ loops' = [loops EXCEPT !.pc[t] =
                     IF loops.current_mtime[t] > mp.control_file_last_modified
                        THEN "store" ELSE "sleep"]
    /\ UNCHANGED <<mp, controlFile, loopRest>>

\* self.control_file_last_modified = current_mtime
L_Store(t) ==
    /\ loops.pc[t] = "store"
    /\ mp' = [mp EXCEPT !.control_file_last_modified = loops.current_mtime[t]]
    /\ loops' = [loops EXCEPT !.pc[t] = "process"]
    /\ UNCHANGED <<controlFile, loopRest>>

\* _process_control_file: content = f.read().strip()
L_Read(t) ==
    /\ loops.pc[t] = "process"
    /\ loops' = [loops EXCEPT !.pc[t] = "execute",
                              !.content[t] = controlFile.content,
                              !.executed[controlFile.mtime] = @ + 1,
                              !.orphan = @ \/ (mp.control_source = None
                                                 /\ loops.caller = "idle")]
    /\ UNCHANGED <<mp, controlFile, loopRest>>

\* _process_control_file: the command of content, then the loop's sleep
L_Execute(t) ==
    /\ loops.pc[t] = "execute"
    /\ \E ok \in BOOLEAN, order \in WalkOrders :
          mp' = ProcessControlFile(Call(mp), loops.content[t], ok, order)
    /\ loops' = [loops EXCEPT !.pc[t] = "sleep", !.content[t] = <<>>]
    /\ UNCHANGED <<controlFile, loopRest>>

\* time.sleep(1) ends
L_Sleep(t) ==
    /\ loops.pc[t] = "sleep"
    /\ loops' = [loops EXCEPT !.pc[t] = "top", !.current_mtime[t] = 0]
    /\ UNCHANGED <<mp, controlFile, loopRest>>

L_Thread == \E t \in LoopThreads :
    L_Top(t) \/ L_Compare(t) \/ L_Store(t) \/ L_Read(t) \/ L_Execute(t) \/ L_Sleep(t)

\* the control file is rewritten
L_EditControlFile ==
    /\ controlFile.mtime <= MaxLoopEdits
    /\ \E c \in LoopContents :
          controlFile' = [content |-> c, mtime |-> controlFile.mtime + 1]
    /\ UNCHANGED <<mp, loops, loopRest>>

LoopInit ==
    /\ mp = MPObject
    /\ \E c \in LoopContents : controlFile = [content |-> c, mtime |-> 1]
    /\ ctlLoops = 0
    /\ ctlReread = "none"
    /\ vlcPc = "idle"
    /\ vlcLocal = 0
    /\ ctlPc = "idle"
    /\ ctlLocal = NoPath
    /\ OrchIdle
    /\ MonIdle

LoopNext ==
    \/ L_SetControlSource
    \/ L_JoinReturns
    \/ L_Thread
    \/ L_EditControlFile
    \/ MP_SetMusicSource

SpecLoops == LoopInit /\ [][LoopNext]_vars

(***************************************************************************)
(* main.main_loop driving player.Player, next to USBMonitor's check, both  *)
(* polling the same mount state.  A turn of the loop and a check are each  *)
(* taken whole.                                                            *)
(***************************************************************************)
\* the name of the album folder, character by character
AlbumChars == <<"J", "a", "z", "z">>

\* what the control file may hold, as f.read().strip() of main_loop returns it
OrchContents ==
    {<<>>, <<"play">>,
     <<"Album:", AlbumChars>>, <<"Album:", <<"J", "a">>>>, <<"Album:", <<"R">>>>,
     <<"album:", AlbumChars>>,
     <<"Track:", <<"a">>>>, <<"Track:", <<"c">>>>}

\* utils.find_album_folder(album_name): the first directory that
\* glob(<music usb>/**/<album_name>*) gives
FindAlbumFolder(album_name, music_usb_path) ==
    IF music_usb_path = None
       THEN NoPath
       ELSE IF IsPrefix(album_name, AlbumChars)
               THEN AlbumFolder(music_usb_path)
               ELSE NoPath

\* glob.glob(<music usb>/**/<track_name>*, recursive=True): the entries of the
\* root first, then those of the album folder in directory order
GlobTracks(music_usb_path, track_name, order) ==
    LET listed == [i \in 1..Len(order) |-> Files[order[i]]]
        hits == SelectSeq(listed, LAMBDA f : IsPrefix(track_name, f))
    IN  (IF IsPrefix(track_name, AlbumChars) THEN <<AlbumFolder(music_usb_path)>> ELSE <<>>)
            \o [i \in 1..Len(hits) |-> TrackPath(music_usb_path, hits[i])]

\* is_new_mount of main_loop
IsNewMountFirstOnly(ctl_usb) == ~previously_mounted

IsNewMount(ctl_usb) == ~previously_mounted \/ last_control_path # ctl_usb

\* the body of `if is_new_mount:` after player.stop(): the control file is read
\* and its request executed; the result is the Player, and the calls made and
\* the error logged
ExecuteRequest(s, request_line, music_usb_path, ok, order) ==
    LET word == IF request_line = <<>> THEN "" ELSE request_line[1]
    IN  CASE word = "Album:" ->
               LET target_folder == FindAlbumFolder(request_line[2], music_usb_path)
               IN  IF target_folder # NoPath
                      THEN <<PlayerPlayAlbum(s, target_folder, ok), <<"play_album">>>>
                      ELSE <<s, <<>>>>
          [] word = "Track:" ->
               IF music_usb_path = None
                  THEN <<s, <<>>>>
                  ELSE LET matching_tracks == GlobTracks(music_usb_path, request_line[2], order)
                       IN  IF matching_tracks # <<>>
                              THEN <<PlayerPlaySingle(s, matching_tracks[1], ok), <<"play_single">>>>
                              ELSE <<s, <<>>>>
          [] OTHER -> <<s, <<"not in valid format">>>>

\* one turn of `while True:` of main_loop; ctl_usb is its local control_usb
MainLoopTurn ==
    /\ LET ctl_usb == fsControl
       IN  IF ctl_usb # None
              THEN IF IsNewMount(ctl_usb)
                      THEN /\ previously_mounted' = TRUE
                           /\ last_control_path' = ctl_usb
                           /\ \E ok \in BOOLEAN, order \in WalkOrders :
                                 LET done == ExecuteRequest(PlayerStop(pl), controlFile.content,
                                                            fsMusic, ok, order)
                                 IN  /\ pl' = done[1]
                                     /\ orchLog' = Append(orchLog,
                                            <<ctl_usb, last_control_path,
                                              <<"stop", "read">> \o done[2]>>)
                      ELSE UNCHANGED orchVars
              ELSE IF previously_mounted
                      THEN /\ previously_mounted' = FALSE
                           /\ last_control_path' = None
                           /\ pl' = PlayerStop(pl)
                           /\ orchLog' = Append(orchLog, <<None, last_control_path, <<"stop">>>>)
                      ELSE UNCHANGED orchVars
    /\ UNCHANGED <<mp, controlFile, ctlLoops, ctlReread, raceVars, monVars, cmdVars>>

\* _check_usb_changes from its first line to its last
CheckUsbChanges ==
    /\ IF fsMusic # current_music_usb
          THEN HandleMusicUsbChange(fsMusic)
          ELSE UNCHANGED <<current_music_usb, musicLog>>
    /\ IF fsControl # current_control_usb
          THEN HandleControlUsbChange(fsControl)
          ELSE UNCHANGED <<current_control_usb, controlLog>>
    /\ musicSeen' = SeenAfter(musicSeen, fsMusic)
    /\ controlSeen' = SeenAfter(controlSeen, fsControl)
    /\ UNCHANGED <<playerVars, fsVars, udevVars, monitoring, monCode>>

\* the card's file is rewritten while the card is out or in
OrchEditControlFile ==
    /\ controlFile.mtime <= MaxOrchEdits
    /\ \E c \in OrchContents :
          controlFile' = [content |-> c, mtime |-> controlFile.mtime + 1]
    /\ UNCHANGED <<mp, ctlLoops, ctlReread, raceVars, monVars, orchVars>>

OrchInit ==
    /\ MonIdle
    /\ mp = MPObject
    /\ \E c \in OrchContents : controlFile = [content |-> c, mtime |-> 1]
    /\ ctlLoops = 0
    /\ ctlReread = "none"
    /\ vlcPc = "idle"
    /\ vlcLocal = 0
    /\ ctlPc = "idle"
    /\ ctlLocal = NoPath
    /\ OrchIdle

OrchNext ==
    \/ MountChange
    \/ CheckUsbChanges
    \/ MainLoopTurn
    \/ OrchEditControlFile

SpecOrch == OrchInit /\ [][OrchNext]_vars

(***************************************************************************)
(* The interpreters on the text of the control file, character by          *)
(* character: MusicPlayer's control monitor, the turn of main_loop that    *)
(* finds the card, process_control_file of app.py, and the volume route of *)
(* the web layer, which calls Player.set_volume.                           *)
(***************************************************************************)
Keywords == {Str_play, Str_pause, Str_stop, Str_next, Str_previous}

\* a word as written: in lower case, in upper case, capitalised
Cased(word) == {word, Upper(word), <<UpperChar(word[1])>> \o Tail(word)}

\* a text as saved: bare, or with a blank before and a blank and a newline after
Padded(str) == {str, <<" ">> \o str \o <<" ", "\n">>}

KeywordTexts == UNION {Padded(w) : w \in UNION {Cased(k) : k \in Keywords}}

PrefixTexts ==
    {Str_Album \o AlbumChars,
     Str_Album \o <<" ", "J", "a", "\n">>,
     Str_album \o AlbumChars,
     Upper(Str_album) \o AlbumChars,
     Str_Album \o <<"J">> \o Str_Album \o <<"a">>,
     Str_Track \o <<"a">>,
     Str_Track \o <<" ", "b", " ">>,
     Str_track \o <<"a">>,
     Upper(Str_track) \o <<"b">>,
     Str_Track \o <<"a", ":", "b">>,
     Str_Track \o <<"a">> \o Str_Track}

VolumeTexts ==
    {Str_volume \o <<"5", "0">>,
     Str_volume \o <<"1", "5", "0">>,
     Str_volume \o <<"-", "5">>,
     Upper(Str_volume) \o <<" ", "3", "0", "\n">>,
     Str_volume \o <<"x">>,
     Str_volume,
     Str_volume \o <<"5", ".", "5">>,
     Str_volume \o <<"5", ":", "3">>}

OtherTexts == {<<>>, <<" ", "\n">>, <<"h", "e", "l", "l", "o">>, Str_play \o <<"s">>}

Texts == KeywordTexts \cup PrefixTexts \cup VolumeTexts \cup OtherTexts

\* the volumes the route /api/set_volume/<int:volume> hands on: the int
\* converter takes digits only
Volumes == {0, 30, 100, 150}

\* the conditions of main_loop and of process_control_file of app.py on
\* request_line: the request they find in the text of the file
Request(text) ==
    LET request_line == Strip(text)
    IN  CASE StartsWith(request_line, Str_Album) ->
               <<"Album:", Strip(Remove(request_line, Str_Album))>>
          [] StartsWith(request_line, Str_Track) ->
               <<"Track:", Strip(Remove(request_line, Str_Track))>>
          [] OTHER -> <<"", request_line>>

\* process_control_file(control_usb) of app.py, the file being there: the
\* Player, and the calls made
AppExecuteRequest(s, request_line, music_usb_path, ok, order) ==
    IF request_line[1] \in {"Album:", "Track:"}
       THEN <<ExecuteRequest(s, request_line, music_usb_path, ok, order)[1],
              ExecuteRequest(s, request_line, music_usb_path, ok, order)[2]>>
       ELSE IF music_usb_path # None
               THEN <<PlayerPlayAlbum(s, AlbumFolder(music_usb_path), ok), <<"play_album">>>>
               ELSE <<s, <<>>>>

\* the user saves a text to the control file
Cmd_WriteText ==
    /\ controlFile.mtime <= MaxCmdWrites
    /\ \E text \in Texts :
          controlFile' = [content |-> text, mtime |-> controlFile.mtime + 1]
    /\ UNCHANGED <<mp, ctlLoops, ctlReread, raceVars, monVars, orchVars>>

\* a turn of _control_monitor_loop that finds the file modified
Cmd_ControlMonitorLoop ==
    /\ ctlLoops > 0
    /\ mp.control_monitor_running
    /\ mp.control_source # None
    /\ controlFile.mtime > mp.control_file_last_modified
    /\ \E ok \in BOOLEAN, order \in WalkOrders :
          mp' = ProcessControlFile(
                    [Call(mp) EXCEPT !.control_file_last_modified = controlFile.mtime],
                    Command(controlFile.content), ok, order)
    /\ cmdLog' = [by |-> "MusicPlayer", text |-> controlFile.content,
                  command |-> Command(controlFile.content), result |-> TRUE]
    /\ UNCHANGED <<controlFile, ctlLoops, ctlReread, raceVars, monVars,
                   previously_mounted, last_control_path, pl, orchLog, proc, resVars>>

\* one turn of `while True:` of main_loop on the text of the file
Req_MainLoopTurn ==
    /\ proc.state = "running"
    /\ IF fsControl # None
          THEN /\ IsNewMount(fsControl)
               /\ previously_mounted' = TRUE
               /\ last_control_path' = fsControl
               /\ \E ok \in BOOLEAN, order \in WalkOrders :
                     LET done == ExecuteRequest(PlayerStop(pl), Request(controlFile.content),
                                                fsMusic, ok, order)
                     IN  /\ pl' = done[1]
                         /\ cmdLog' = [by |-> "main_loop", text |-> controlFile.content,
                                       command |-> Request(controlFile.content),
                                       result |-> done[2]]
          ELSE /\ previously_mounted
               /\ previously_mounted' = FALSE
               /\ last_control_path' = None
               /\ pl' = PlayerStop(pl)
               /\ UNCHANGED cmdLog
    /\ UNCHANGED <<mp, controlFile, ctlLoops, ctlReread, raceVars, monVars, orchLog, proc, resVars>>

\* process_control_file(control_usb) of app.py, called for a new mount
Req_AppProcessControlFile ==
    /\ proc.state = "running"
    /\ fsControl # None
    /\ \E ok \in BOOLEAN, order \in WalkOrders :
          LET done == AppExecuteRequest(pl, Request(controlFile.content), fsMusic, ok, order)
          IN  /\ pl' = done[1]
              /\ cmdLog' = [by |-> "process_control_file", text |-> controlFile.content,
                            command |-> Request(controlFile.content), result |-> done[2]]
    /\ UNCHANGED <<mp, controlFile, ctlLoops, ctlReread, raceVars, monVars,
                   previously_mounted, last_control_path, orchLog, proc, resVars>>

\* POST /api/set_volume/<volume>
Req_SetVolume ==
    /\ proc.state = "running"
    /\ \E volume \in Volumes :
          /\ pl' = PlayerSetVolume(pl, volume)[1]
          /\ cmdLog' = [by |-> "set_volume", text |-> <<>>,
                        command |-> <<"volume:", volume>>,
                        result |-> PlayerSetVolume(pl, volume)[2]]
    /\ UNCHANGED <<mp, controlFile, ctlLoops, ctlReread, raceVars, monVars,
                   previously_mounted, last_control_path, orchLog, proc, resVars>>

\* both devices are in, the owner of the MusicPlayer has handed it their
\* paths and its control monitor runs; the card holds one of the texts
CmdInit ==
    /\ MonInit
    /\ fsMusic # None
    /\ fsControl = "/media/pi/PLAY_CARD"
    /\ \E text \in Texts : controlFile = [content |-> text, mtime |-> 1]
    /\ mp = [MPObject EXCEPT !.music_source = fsMusic,
                             !.control_source = fsControl,
                             !.control_monitor_running = TRUE]
    /\ ctlLoops = 1
    /\ ctlReread = "none"
    /\ vlcPc = "idle"
    /\ vlcLocal = 0
    /\ ctlPc = "idle"
    /\ ctlLocal = NoPath
    /\ OrchIdle

CmdNext ==
    \/ Cmd_WriteText
    \/ Cmd_ControlMonitorLoop

SpecCmd == CmdInit /\ [][CmdNext]_vars

\* the user saves a text to the control file of the card that is in
Req_WriteText == controlFile.mtime <= MaxReqWrites /\ Cmd_WriteText

(***************************************************************************)
(* The end of the process.  main.py runs main_loop inside try / except /   *)
(* finally and installs no signal handler; app.py installs signal_handler  *)
(* for SIGINT and SIGTERM and runs monitor_usb_loop inside try / except /  *)
(* finally.  An exception or a signal stops the main thread where it is.   *)
(***************************************************************************)
\* the finally clause of main.py and of run of app.py: player.stop()
FinallyNoStop(s) == s

Finally(s) == PlayerStop(s)

\* signal_handler of app.py: player.stop(), then sys.exit(0)
SignalHandler(s) == PlayerStop(s)

Ended(cause) == [state |-> "ended", cause |-> cause, was |-> pl.vlc_state]

\* main.py: KeyboardInterrupt (SIGINT) or an exception leaves main_loop; the
\* except clause logs, the finally clause runs and the process ends
Main_Shutdown ==
    /\ proc.state = "running"
    /\ pl' = Finally(pl)
    /\ \E cause \in {"KeyboardInterrupt", "Exception"} : proc' = Ended(cause)
    /\ UNCHANGED <<mp, controlFile, ctlLoops, ctlReread, raceVars, monVars,
                   previously_mounted, last_control_path, orchLog, cmdLog, resVars>>

\* main.py: SIGTERM, for which it has no handler, ends the process at once
Main_Terminated ==
    /\ proc.state = "running"
    /\ proc' = Ended("SIGTERM, no handler")
    /\ UNCHANGED <<mp, controlFile, ctlLoops, ctlReread, raceVars, monVars,
                   previously_mounted, last_control_path, pl, orchLog, cmdLog, resVars>>

\* app.py: SIGINT or SIGTERM runs signal_handler in the main thread; its
\* sys.exit(0) raises SystemExit there, which no except clause of
\* monitor_usb_loop or run catches, and the finally clause of run runs
App_Signal ==
    /\ proc.state = "running"
    /\ pl' = Finally(SignalHandler(pl))
    /\ \E cause \in {"SIGINT", "SIGTERM"} : proc' = Ended(cause)
    /\ UNCHANGED <<mp, controlFile, ctlLoops, ctlReread, raceVars, monVars,
                   previously_mounted, last_control_path, orchLog, cmdLog, resVars>>

ExitNext ==
    \/ Req_MainLoopTurn
    \/ Req_AppProcessControlFile
    \/ Main_Shutdown
    \/ Main_Terminated
    \/ App_Signal

\* main.py or app.py starts with both devices in, the card holding one of the
\* texts
ReqInit ==
    /\ MonInit
    /\ fsMusic # None
    /\ fsControl = "/media/pi/PLAY_CARD"
    /\ \E text \in Texts : controlFile = [content |-> text, mtime |-> 1]
    /\ mp = MPObject
    /\ ctlLoops = 0
    /\ ctlReread = "none"
    /\ vlcPc = "idle"
    /\ vlcLocal = 0
    /\ ctlPc = "idle"
    /\ ctlLocal = NoPath
    /\ OrchIdle

ReqNext ==
    \/ Req_WriteText
    \/ Req_MainLoopTurn
    \/ Req_AppProcessControlFile
    \/ Req_SetVolume

SpecReq == ReqInit /\ [][ReqNext]_vars

SpecExit == ReqInit /\ [][ExitNext]_vars

(***************************************************************************)
(* The resolvers: find_music_usb and find_control_usb of utils.py, and     *)
(* _find_music_usb and _find_control_usb of USBMonitor.  The world is the  *)
(* set of paths that exist, the one of them (if any) whose mount is at     *)
(* fault and how, whether a chown repairs a permission fault, the set of   *)
(* paths that hold the control file, the two environment variables, and    *)
(* the order in which /media/pi lists its entries.                         *)
(***************************************************************************)
MediaPath ==
    [item \in {"MUSIC", "MUSIC1", "PLAY_CARD", "PLAY_CARD1"} |->
        CASE item = "MUSIC" -> "/media/pi/MUSIC"
          [] item = "MUSIC1" -> "/media/pi/MUSIC1"
          [] item = "PLAY_CARD" -> "/media/pi/PLAY_CARD"
          [] item = "PLAY_CARD1" -> "/media/pi/PLAY_CARD1"]

\* item.startswith("MUSIC"), item.startswith("PLAY_CARD")
StartsWithMUSIC(item) == item \in {"MUSIC", "MUSIC1"}
StartsWithPLAY_CARD(item) == item \in {"PLAY_CARD", "PLAY_CARD1"}

\* every path a resolver may look at
WorldPaths ==
    {"/env/music", "/env/card",
     "/home/pi/usb/music", "/shared/usb/music", "/home/pi/usb", "/mnt/usb",
     "/home/pi/usb/playcard", "/shared/usb/playcard",
     "/media/pi/MUSIC", "/media/pi/MUSIC1", "/media/pi/PLAY_CARD", "/media/pi/PLAY_CARD1"}

\* orders in which os.listdir("/media/pi") may give the entries
ListOrders ==
    {<<"MUSIC", "MUSIC1", "PLAY_CARD", "PLAY_CARD1">>,
     <<"MUSIC1", "MUSIC", "PLAY_CARD1", "PLAY_CARD">>,
     <<"PLAY_CARD1", "MUSIC", "PLAY_CARD", "MUSIC1">>}

\* what can be wrong with a directory that exists
Faults ==
    {"not a directory", "permission denied", "cannot list", "empty",
     "removed under stat", "entries not statable"}
NoFault == [path |-> None, kind |-> ""]

\* os.listdir(mount_path): what it raises, if anything, and the entries
OsListdir(w, path) ==
    CASE w.fault.path = path /\ w.fault.kind = "permission denied" ->
             [raises |-> "PermissionError", entries |-> <<>>]
      [] w.fault.path = path /\ w.fault.kind = "cannot list" ->
             [raises |-> "OSError", entries |-> <<>>]
      [] w.fault.path = path /\ w.fault.kind = "empty" ->
             [raises |-> "", entries |-> <<>>]
      [] OTHER -> [raises |-> "", entries |-> <<"entry">>]

\* os.stat(item_path), the n-th time it is asked about an entry of path
OsStat(w, path, n) ==
    CASE w.fault.path = path /\ w.fault.kind = "entries not statable" -> "OSError"
      [] w.fault.path = path /\ w.fault.kind = "removed under stat" /\ n > 1 -> "OSError"
      [] OTHER -> "ok"

\* os.path.isfile(item_path): a stat that fails gives False
OsPathIsfile(w, path) == OsStat(w, path, 1) = "ok"

\* is_usb_accessible(path)
IsUsbAccessibleResult(w, path) ==
    IF path \notin w.exists THEN <<FALSE, "Path does not exist">>
    ELSE IF w.fault.path = path /\ w.fault.kind = "not a directory"
            THEN <<FALSE, "Not a directory">>
    ELSE LET contents == OsListdir(w, path)
         IN  CASE contents.raises = "PermissionError" ->
                      <<FALSE, "Cannot list directory: Permission denied">>
               [] contents.raises = "OSError" ->
                      <<FALSE, "Cannot list directory: Input/output error">>
               [] OTHER ->
                      IF contents.entries = <<>> THEN <<FALSE, "Directory is empty">>
                      ELSE IF OsPathIsfile(w, path) /\ OsStat(w, path, 2) = "OSError"
                              THEN <<FALSE, "Mount appears stale">>
                      ELSE <<TRUE, "Accessible">>

\* is_usb_accessible(path)[0]
IsUsbAccessible(w, path) == IsUsbAccessibleResult(w, path)[1]

\* the world after _try_fix_permissions(path)
TryFixPermissions(w, path) ==
    IF w.permission_fix /\ w.fault.path = path THEN [w EXCEPT !.fault = NoFault] ELSE w

\* USBMonitor._is_usb_accessible_with_permissions(path): the answer and the
\* world it leaves
IsUsbAccessibleWithPermissions(w, path) ==
    LET first == IsUsbAccessibleResult(w, path)
    IN  IF first[1] THEN <<TRUE, w>>
        ELSE IF first[2] = "Cannot list directory: Permission denied"
                THEN LET fixed == TryFixPermissions(w, path)
                     IN  <<IsUsbAccessibleResult(fixed, path)[1], fixed>>
        ELSE <<FALSE, w>>

\* os.path.isfile(os.path.join(path, CONTROL_FILE_NAME))
HasControlFile(w, path) == path \in w.control_file

\* the first entry of a list of paths that passes, or None
FirstOf(paths, Passes(_)) ==
    LET hits == SelectSeq(paths, Passes)
    IN  IF hits = <<>> THEN None ELSE hits[1]

\* the first of the results that is a path, or None
FirstPath(results) == FirstOf(results, LAMBDA r : r # None)

ScanPaths(w, Named(_)) ==
    LET items == SelectSeq(w.listdir, Named)
    IN  [i \in 1..Len(items) |-> MediaPath[items[i]]]

\* utils.find_music_usb()
FindMusicUsb(w) ==
    LET ok(path) == IsUsbAccessible(w, path)
    IN  FirstPath(<<IF w.env_music # None /\ ok(w.env_music) THEN w.env_music ELSE None,
                    FirstOf(<<"/home/pi/usb/music">>, ok),
                    FirstOf(<<"/shared/usb/music">>, ok),
                    FirstOf(ScanPaths(w, StartsWithMUSIC), ok),
                    FirstOf(<<"/home/pi/usb", "/mnt/usb">>, ok)>>)

\* find_control_usb with the scan of /media/pi before the fixed paths
FindControlUsbScanFirst(w) ==
    LET ok(path) == IsUsbAccessible(w, path) /\ HasControlFile(w, path)
        music_path == FindMusicUsb(w)
    IN  FirstPath(<<IF w.env_control # None /\ ok(w.env_control) THEN w.env_control ELSE None,
                    FirstOf(ScanPaths(w, StartsWithPLAY_CARD), ok),
                    FirstOf(<<"/home/pi/usb/playcard">>, ok),
                    FirstOf(<<"/shared/usb/playcard">>, ok),
                    IF music_path # None /\ HasControlFile(w, music_path)
                       THEN music_path ELSE None>>)

\* utils.find_control_usb()
FindControlUsb(w) ==
    LET ok(path) == IsUsbAccessible(w, path) /\ HasControlFile(w, path)
        music_path == FindMusicUsb(w)
    IN  FirstPath(<<IF w.env_control # None /\ ok(w.env_control) THEN w.env_control ELSE None,
                    FirstOf(<<"/home/pi/usb/playcard">>, ok),
                    FirstOf(<<"/shared/usb/playcard">>, ok),
                    FirstOf(ScanPaths(w, StartsWithPLAY_CARD), ok),
                    IF music_path # None /\ HasControlFile(w, music_path)
                       THEN music_path ELSE None>>)

\* the first of the paths that _is_usb_accessible_with_permissions accepts,
\* or None, and the world the checks leave
RECURSIVE MonFirstAccessible(_, _)
MonFirstAccessible(w, paths) ==
    IF paths = <<>> THEN <<None, w>>
    ELSE LET checked == IsUsbAccessibleWithPermissions(w, Head(paths))
         IN  IF checked[1] THEN <<Head(paths), checked[2]>>
             ELSE MonFirstAccessible(checked[2], Tail(paths))

\* USBMonitor._find_music_usb(): what it returns and the world it leaves
MonFindMusicUsbIn(w) ==
    MonFirstAccessible(w, (IF w.env_music # None THEN <<w.env_music>> ELSE <<>>)
                              \o ScanPaths(w, StartsWithMUSIC))

\* USBMonitor._find_music_usb()
MonFindMusicUsb(w) == MonFindMusicUsbIn(w)[1]

\* candidates.sort(key=lambda x: (len(basename), basename)) on the paths the
\* scan of /media/pi has kept
SortCandidates(candidates) ==
    SelectSeq(candidates, LAMBDA path : path = "/media/pi/PLAY_CARD")
        \o SelectSeq(candidates, LAMBDA path : path = "/media/pi/PLAY_CARD1")

\* the loop over media_pi.iterdir(): the candidates it appends and the world
\* its checks leave
RECURSIVE MonCandidates(_, _)
MonCandidates(w, paths) ==
    IF paths = <<>> THEN <<<<>>, w>>
    ELSE LET checked == IsUsbAccessibleWithPermissions(w, Head(paths))
             rest == MonCandidates(checked[2], Tail(paths))
         IN  IF checked[1] /\ HasControlFile(w, Head(paths))
                THEN <<<<Head(paths)>> \o rest[1], rest[2]>>
                ELSE rest

\* USBMonitor._find_control_usb(): what it returns and the world it leaves
MonFindControlUsbIn(w) ==
    LET env == IF w.env_control # None
                  THEN IsUsbAccessibleWithPermissions(w, w.env_control)
                  ELSE <<FALSE, w>>
        exact == IsUsbAccessibleWithPermissions(env[2], "/media/pi/PLAY_CARD")
        scan == MonCandidates(exact[2], ScanPaths(w, StartsWithPLAY_CARD))
        music == MonFindMusicUsbIn(scan[2])
    IN  IF env[1] /\ HasControlFile(w, w.env_control) THEN <<w.env_control, env[2]>>
        ELSE IF exact[1] /\ HasControlFile(w, "/media/pi/PLAY_CARD")
                THEN <<"/media/pi/PLAY_CARD", exact[2]>>
        ELSE IF scan[1] # <<>> THEN <<SortCandidates(scan[1])[1], scan[2]>>
        ELSE IF music[1] # None /\ HasControlFile(w, music[1]) THEN music
        ELSE <<None, music[2]>>

\* USBMonitor._find_control_usb()
MonFindControlUsb(w) == MonFindControlUsbIn(w)[1]

Resolvers ==
    {"find_music_usb", "find_control_usb", "_find_music_usb", "_find_control_usb"}

\* a caller asks a resolver
Resolve ==
    /\ \E r \in Resolvers :
          /\ resolved' =
              [by |-> r,
               path |-> CASE r = "find_music_usb" -> FindMusicUsb(world)
                          [] r = "find_control_usb" -> FindControlUsb(world)
                          [] r = "_find_music_usb" -> MonFindMusicUsb(world)
                          [] r = "_find_control_usb" -> MonFindControlUsb(world)]
          /\ world' = CASE r = "_find_music_usb" -> MonFindMusicUsbIn(world)[2]
                        [] r = "_find_control_usb" -> MonFindControlUsbIn(world)[2]
                        [] OTHER -> world
    /\ UNCHANGED <<monVars, mp, controlFile, ctlLoops, ctlReread, raceVars,
                   previously_mounted, last_control_path, pl, orchLog, cmdLog, proc, web,
                   search, earlier, loops>>

\* at most MaxPresent paths are accessible; a control file is on some of them
ResolveInit ==
    /\ MonIdle
    /\ mp = MPObject
    /\ controlFile = [content |-> <<>>, mtime |-> 0]
    /\ ctlLoops = 0
    /\ ctlReread = "none"
    /\ vlcPc = "idle"
    /\ vlcLocal = 0
    /\ ctlPc = "idle"
    /\ ctlLocal = NoPath
    /\ OrchIdleButWorld
    /\ \E a \in {s \in SUBSET WorldPaths : Cardinality(s) <= MaxPresent} :
          \E c \in SUBSET a, em \in {None, "/env/music"}, ec \in {None, "/env/card"},
             l \in ListOrders :
                world = [exists |-> a, fault |-> NoFault, permission_fix |-> FALSE,
                         control_file |-> c, env_music |-> em,
                         env_control |-> ec, listdir |-> l]
    /\ resolved = Unresolved

ResolveNext == Resolve

SpecResolve == ResolveInit /\ [][ResolveNext]_vars

\* at most MaxStalePresent paths exist and the mount of one of them is at
\* fault; USB_PERMISSION_FIX may be set and the chown may work
StaleInit ==
    /\ MonIdle
    /\ mp = MPObject
    /\ controlFile = [content |-> <<>>, mtime |-> 0]
    /\ ctlLoops = 0
    /\ ctlReread = "none"
    /\ vlcPc = "idle"
    /\ vlcLocal = 0
    /\ ctlPc = "idle"
    /\ ctlLocal = NoPath
    /\ OrchIdleButWorld
    /\ \E a \in {s \in SUBSET WorldPaths : Cardinality(s) \in 1..MaxStalePresent} :
          \E path \in a, kind \in Faults, fix \in BOOLEAN, c \in SUBSET a,
             em \in {None, "/env/music"}, ec \in {None, "/env/card"}, l \in ListOrders :
                /\ fix => kind = "permission denied"
                /\ kind \in {"not a directory", "empty"} => path \notin c
                /\ world = [exists |-> a, fault |-> [path |-> path, kind |-> kind],
                            permission_fix |-> fix, control_file |-> c, env_music |-> em,
                            env_control |-> ec, listdir |-> l]
    /\ resolved = Unresolved

SpecStale == StaleInit /\ [][ResolveNext]_vars

(***************************************************************************)
(* The routes of the web layer: web_interface.py asks                      *)
(* find_control_usb_with_retry before a transport command, player.py asks  *)
(* usb_is_mounted(CONTROL_USB_MOUNT); both act on the Player object.  The  *)
(* devices come and go while a handler sleeps between its attempts.        *)
(***************************************************************************)
CONTROL_USB_MOUNT == "/media/pi/PLAY_CARD"

\* max_retries of find_control_usb_with_retry
MaxRetries == 3

TransportOps == {"toggle_play_pause", "next_track", "prev_track"}

Transport(op, s) ==
    CASE op = "toggle_play_pause" -> PlayerTogglePlayPause(s)
      [] op = "next_track" -> PlayerNextTrack(s)
      [] op = "prev_track" -> PlayerPreviousTrack(s)

\* usb_is_mounted(mount_path) of player.py
PlayerUsbIsMounted(w, mount_path) ==
    mount_path \in w.exists /\ OsListdir(w, mount_path).raises = ""

\* a handler that takes the card for present without asking
AttemptAssumesCard(w) == CONTROL_USB_MOUNT

\* one attempt of find_control_usb_with_retry
Attempt(w) == FindControlUsb(w)

\* the card and the music stick, each in or out, each with or without the
\* control file
WebWorlds ==
    {[NoWorld EXCEPT !.exists = a, !.control_file = c,
                     !.listdir = <<"MUSIC", "MUSIC1", "PLAY_CARD", "PLAY_CARD1">>] :
        a \in SUBSET {"/media/pi/PLAY_CARD", "/media/pi/MUSIC"},
        c \in SUBSET {"/media/pi/PLAY_CARD", "/media/pi/MUSIC"}} 

\* a device is put in or pulled out, or the control file written or removed
Web_MountChange ==
    /\ web.mounts < MaxWebMounts
    /\ \E w \in WebWorlds :
          /\ w.control_file \subseteq w.exists
          /\ w # world
          /\ world' = w
    /\ web' = [web EXCEPT !.mounts = @ + 1]
    /\ UNCHANGED <<monVars, mp, controlFile, ctlLoops, ctlReread, raceVars,
                   previously_mounted, last_control_path, pl, orchLog, cmdLog, proc,
                   resolved, search, earlier, loops>>

\* a POST to /api/toggle_play_pause, /api/next_track or /api/prev_track of
\* web_interface.py arrives
Web_Begin ==
    /\ web.op = ""
    /\ web.served < MaxWebRequests
    /\ \E op \in TransportOps :
          web' = [web EXCEPT !.op = op, !.by = "web_interface", !.attempt = 0]
    /\ UNCHANGED <<monVars, mp, controlFile, ctlLoops, ctlReread, raceVars,
                   previously_mounted, last_control_path, pl, orchLog, cmdLog, proc,
                   world, resolved, search, earlier, loops>>

\* the handler's next attempt to find the card, and what it does once it
\* has found it or has given up
Web_Attempt ==
    /\ web.op \in TransportOps
    /\ LET control_path == Attempt(world)
           done == [web EXCEPT !.op = "", !.by = "", !.attempt = 0, !.served = @ + 1]
       IN  /\ resolved' = [by |-> "find_control_usb", path |-> control_path]
           /\ IF control_path # None
                 THEN /\ pl' = Transport(web.op, pl)
                      /\ cmdLog' = [by |-> "web_interface", text |-> <<>>,
                                    command |-> <<web.op>>, result |-> TRUE]
                      /\ web' = done
                 ELSE IF web.attempt + 1 < MaxRetries
                         THEN /\ web' = [web EXCEPT !.attempt = @ + 1]
                              /\ UNCHANGED <<pl, cmdLog>>
                         ELSE /\ cmdLog' = [by |-> "web_interface", text |-> <<>>,
                                           command |-> <<web.op>>, result |-> FALSE]
                              /\ web' = done
                              /\ UNCHANGED pl
    /\ UNCHANGED <<monVars, mp, controlFile, ctlLoops, ctlReread, raceVars,
                   previously_mounted, last_control_path, orchLog, proc, world, search,
                   earlier, loops>>

\* a POST to /toggle_play_pause, /next_track or /prev_track of player.py
Web_PlayerRoute ==
    /\ web.op = ""
    /\ web.served < MaxWebRequests
    /\ \E op \in TransportOps :
          /\ pl' = IF PlayerUsbIsMounted(world, CONTROL_USB_MOUNT)
                      THEN Transport(op, pl) ELSE pl
          /\ cmdLog' = [by |-> "player", text |-> <<>>, command |-> <<op>>,
                        result |-> PlayerUsbIsMounted(world, CONTROL_USB_MOUNT)]
    /\ web' = [web EXCEPT !.served = @ + 1]
    /\ UNCHANGED <<monVars, mp, controlFile, ctlLoops, ctlReread, raceVars,
                   previously_mounted, last_control_path, orchLog, proc, world, resolved,
                   search, earlier, loops>>

\* the Player is idle or plays the album of the stick; any of the worlds
WebInit ==
    /\ MonIdle
    /\ mp = MPObject
    /\ controlFile = [content |-> <<>>, mtime |-> 0]
    /\ ctlLoops = 0
    /\ ctlReread = "none"
    /\ vlcPc = "idle"
    /\ vlcLocal = 0
    /\ ctlPc = "idle"
    /\ ctlLocal = NoPath
    /\ cmdLog = NoCommand
    /\ proc = Running
    /\ previously_mounted = FALSE
    /\ last_control_path = None
    /\ pl \in {PlayerObject,
                PlayerPlayAlbum(PlayerObject, AlbumFolder("/media/pi/MUSIC"), TRUE),
                PlayerStop(PlayerPlayAlbum(PlayerObject, AlbumFolder("/media/pi/MUSIC"), TRUE))}
    /\ orchLog = <<>>
    /\ web = NoRequest
    /\ search = NoSearch
    /\ earlier = NoEarlier
    /\ loops = NoLoops
    /\ world \in {w \in WebWorlds : w.control_file \subseteq w.exists}
    /\ resolved = Unresolved

WebNext ==
    \/ Web_MountChange
    \/ Web_Begin
    \/ Web_Attempt
    \/ Web_PlayerRoute
    \/ Req_SetVolume

SpecWeb == WebInit /\ [][WebNext]_vars

(***************************************************************************)
(* play_track_by_name over the libraries a stick may hold: up to           *)
(* MaxLibrary of the files below, in one folder, handed out by os.walk in  *)
(* any order.                                                              *)
(***************************************************************************)
LibraryFiles ==
    {<<"a", ".mp3">>, <<"a", ".flac">>, <<"a", "b", ".mp3">>, <<"a", "c", ".mp3">>,
     <<"b", "a", ".mp3">>, <<"A", "b", ".flac">>}

SearchNames == {<<"a">>, <<"A", "b">>, <<"b">>, <<"c">>}

\* the files of a library in an order of os.walk
Walks ==
    {walk \in UNION {[1..n -> LibraryFiles] : n \in 0..MaxLibrary} :
        \A i, j \in DOMAIN walk : i # j => walk[i] # walk[j]}

\* MusicPlayer.play_track_by_name(track_name)
Find_PlayTrackByName ==
    /\ ~search.asked
    /\ \E ok \in BOOLEAN :
          LET found_tracks == FindTracks(search.walked, search.name)
          IN  /\ search' = [search EXCEPT !.asked = TRUE, !.found = found_tracks]
              /\ mp' = PlayFirstFound(Call(mp), found_tracks, ok)
    /\ UNCHANGED <<monVars, controlFile, ctlLoops, ctlReread, raceVars,
                   previously_mounted, last_control_path, pl, orchLog, cmdLog, proc,
                   world, resolved, web, earlier, loops>>

FindInit ==
    /\ MonIdle
    /\ mp = [MPObject EXCEPT !.music_source = "/media/pi/MUSIC"]
    /\ controlFile = [content |-> <<>>, mtime |-> 0]
    /\ ctlLoops = 0
    /\ ctlReread = "none"
    /\ vlcPc = "idle"
    /\ vlcLocal = 0
    /\ ctlPc = "idle"
    /\ ctlLocal = NoPath
    /\ cmdLog = NoCommand
    /\ proc = Running
    /\ previously_mounted = FALSE
    /\ last_control_path = None
    /\ pl = PlayerObject
    /\ orchLog = <<>>
    /\ web = NoRequest
    /\ earlier = NoEarlier
    /\ loops = NoLoops
    /\ world = NoWorld
    /\ resolved = Unresolved
    /\ \E walk \in Walks, name \in SearchNames :
          search = [walked |-> [i \in DOMAIN walk |-> TrackPath("/media/pi/MUSIC", walk[i])],
                    name |-> name, asked |-> FALSE, found |-> <<>>]

FindNext == Find_PlayTrackByName

SpecFind == FindInit /\ [][FindNext]_vars

(***************************************************************************)
(* The detector at work, the player left idle.                             *)
(***************************************************************************)
Init == MonInit /\ PlayerIdle

Next == MonNext

Spec == Init /\ [][Next]_vars

\* The monitor thread is a daemon thread that the scheduler keeps running: a
\* step it can take (a sleep ending, a resolver returning, a line being there
\* to read) is eventually taken.  The caller's scan runs in start_monitoring.
SpecFair == Init /\ [][Next]_vars /\ WF_vars(MonThreadStep)

\* the detector with callbacks that may raise
RaiseInit == MonInit /\ PlayerIdle

SpecRaise == RaiseInit /\ [][RaiseNext]_vars

\* the detector started, stopped and started again
RestartInit == MonIdle /\ PlayerIdle

SpecRestart == RestartInit /\ [][RestartNext]_vars

(***************************************************************************)
(* Properties of the detector.                                             *)
(***************************************************************************)
\* the callbacks that a sequence of resolved paths calls for: one per change,
\* with the new path and the path before it
ChangesOf(seen) ==
    [i \in 1..Len(seen) |-> <<seen[i], IF i = 1 THEN None ELSE seen[i - 1]>>]

LastNew(log) == IF log = <<>> THEN None ELSE Last(log)[1]

InPolling == ctx = "poll" \/ pc \in {"pollTop", "sleep3"}

\* C1: over any sequence of mount states and any number of re-checks (initial
\* scan, udev-triggered checks, fallback polls), the music and the control
\* callback have been invoked exactly once per change of the path the checks
\* resolved for that role, with (newPath, oldPath), and never by a re-check that
\* resolved the path of the check before it.
C1_OncePerChange ==
    /\ musicLog = ChangesOf(musicSeen)
    /\ controlLog = ChangesOf(controlSeen)

\* two checks have run to their end, both delivered a control change, and one
\* of them was a no-op re-check for music
C1_Witness ==
    /\ pc \in {"udevTop", "sleep3"}
    /\ Len(controlLog) = 2
    /\ Len(musicLog) = 1
    /\ current_music_usb # None

(***************************************************************************)
(* Properties of the player on mount transitions.                          *)
(***************************************************************************)
ControlToPath == mp'.control_source # mp.control_source /\ mp'.control_source # None
ControlToNone == mp.control_source # None /\ mp'.control_source = None
MusicToNone == mp.music_source # None /\ mp'.music_source = None

\* the Controller's state Empty: nothing loaded, nothing playing or paused
Empty(s) ==
    /\ s.current_album_tracks = <<>>
    /\ s.vlc_state \notin {"Playing", "Paused"}

\* the paths the playback session refers to
SessionPaths(s) ==
    {s.current_album_tracks[i] : i \in 1..Len(s.current_album_tracks)}
        \cup {q \in {s.current_track_path, s.current_album_folder} : q # NoPath}

\* C2: the step that takes the control source to a path calls Stop(), whatever
\* the player was doing, before the control file of that path is read and its
\* command executed.
C2_StopOnControlInsert == [][ControlToPath => mp'.stop_called]_vars

\* C3: the step that takes the control source from a path to None calls Stop()
\* and leaves the Controller Empty, whatever its state before; it reads nothing
\* (the time of the last read stays).
C3_StopOnControlLoss ==
    [][ControlToNone =>
          /\ mp'.stop_called
          /\ Empty(mp')
          /\ mp'.control_file_last_modified = mp.control_file_last_modified]_vars

\* C4: the step that takes the music source to None calls Stop() and discards
\* the session: the playlist, the index and the current track.
C4_DiscardOnMusicLoss ==
    [][MusicToNone =>
          /\ mp'.stop_called
          /\ mp'.current_album_tracks = <<>>
          /\ mp'.current_track_index = 0
          /\ mp'.current_track_path = NoPath]_vars

\* C5: every path the session refers to (playlist entries, current track,
\* album folder) lies under the music source that is set now.
C5_SessionUnderSource ==
    \A q \in SessionPaths(mp) : mp.music_source # None /\ Root(q) = mp.music_source

\* C6: a control-source transition to a path is never passed over by the reader
\* of the control file: the turn of the monitor that follows it reads the file,
\* changed or not.
C6_RereadOnInsert == ctlReread # "skipped"

\* C7: a track-end handler and a command are never in the middle of changing
\* the session and the engine at the same time: while play_track_by_name has
\* written its session and not yet called the engine, no _on_track_end stands
\* between its decision and the track it starts.
C7_Serialized == ~(vlcPc \in {"sleep", "next"} /\ ctlPc = "playMedia")

(***************************************************************************)
(* Properties of a change of path.                                         *)
(***************************************************************************)
\* the control device is at a path other than the one main_loop last saw
ControlMoved ==
    fsControl # None /\ last_control_path # None /\ fsControl # last_control_path

\* a turn of main_loop that stops, reads and records the new path
RemountHandled ==
    /\ Len(orchLog') = Len(orchLog) + 1
    /\ Last(orchLog')[1] = fsControl
    /\ Last(orchLog')[2] = last_control_path
    /\ SubSeq(Last(orchLog')[3], 1, 2) = <<"stop", "read">>
    /\ last_control_path' = fsControl

\* a check that takes the resolved paths into the cache and calls back once
\* with (newPath, oldPath) for each role whose path differs
ChangeDelivered ==
    /\ current_music_usb' = fsMusic
    /\ current_control_usb' = fsControl
    /\ musicLog' = IF fsMusic # current_music_usb
                      THEN Append(musicLog, <<fsMusic, current_music_usb>>)
                      ELSE musicLog
    /\ controlLog' = IF fsControl # current_control_usb
                        THEN Append(controlLog, <<fsControl, current_control_usb>>)
                        ELSE controlLog

\* C11: a role whose resolved path goes from one path to a different path with
\* no None between is a transition.  Paths are compared as strings: whenever
\* the resolved path differs from the cached one the next check delivers the
\* change, once and with (newPath, oldPath), and whenever the control device
\* is at another path than before the next turn of main_loop stops and reads
\* the file again; no check and no turn does otherwise.
C11_PathChangeIsTransition ==
    /\ []((fsMusic # current_music_usb \/ fsControl # current_control_usb)
             => ENABLED (CheckUsbChanges /\ ChangeDelivered))
    /\ [][CheckUsbChanges => ChangeDelivered]_vars
    /\ [](ControlMoved => ENABLED (MainLoopTurn /\ RemountHandled))
    /\ [][(MainLoopTurn /\ ControlMoved) => RemountHandled]_vars

\* the control device went from one path to another: the detector called back
\* with (new, old) and main_loop stopped and read the file for that change
C11_Witness ==
    /\ Len(orchLog) = 2
    /\ orchLog[2][1] # None
    /\ orchLog[2][2] # None
    /\ orchLog[2][1] # orchLog[2][2]
    /\ orchLog[2][3][1] = "stop"
    /\ Len(controlLog) = 2
    /\ controlLog[2] = <<orchLog[2][1], orchLog[2][2]>>

(***************************************************************************)
(* Properties of the commands of the player.                               *)
(***************************************************************************)
\* the step in which the control monitor reads the file and executes it
FileRead == mp'.control_file_last_modified # mp.control_file_last_modified
CommandRead(c) == FileRead /\ controlFile.content = c

\* the object as a command that changes nothing leaves it
Untouched(s) ==
    [Call(s) EXCEPT !.control_file_last_modified = controlFile.mtime]

\* the fields of the session
Session(s) ==
    <<s.current_album, s.current_album_folder, s.current_album_tracks,
      s.current_track_index, s.current_track_path, s.single_track_mode>>

\* the engine has been handed the track and plays it, or has refused it
Started(s, track) ==
    s.vlc_media = track /\ s.vlc_state \in {"Playing", "NothingSpecial"}

AlbumTracks(root) == [i \in 1..Len(Files) |-> TrackPath(root, Files[i])]

\* C12: album:<name> with a music source whose folder <name> holds audio files
\* installs the playlist of all of them in sorted order at index 0, not in
\* single-track mode, and starts the first track.
C12_PlayAlbumLoads ==
    [][(CommandRead(<<"album:", <<AlbumDir>>>>) /\ mp.music_source # None) =>
          /\ mp'.current_album_tracks = AlbumTracks(mp.music_source)
          /\ mp'.current_track_index = 0
          /\ ~mp'.single_track_mode
          /\ Started(mp', AlbumTracks(mp.music_source)[1])]_vars

\* C13: album:<name> with no folder of that name, or with no music source,
\* ends as NotFound (no exception) and leaves every field as it was.
C13_PlayAlbumNotFound ==
    [][(CommandRead(<<"album:", <<"Rock">>>>)
          \/ (CommandRead(<<"album:", <<AlbumDir>>>>) /\ mp.music_source = None)) =>
          mp' = Untouched(mp)]_vars

\* the files a track: name matches (the name is part of the file's name)
Matching(name) == {i \in 1..Len(Files) : IsInfix(name, Files[i])}

\* C14: track:<name> with a music source: if a file matches, the session is
\* one matching track at index 0 in single-track mode, the global repeat flag
\* as it was, and that track is started; if none matches every field stays.
C14_PlayTrackSingle ==
    [][\A n \in TrackNames :
          (CommandRead(<<"track:", n>>) /\ mp.music_source # None) =>
             IF Matching(n) # {}
                THEN /\ \E i \in Matching(n) :
                           /\ mp'.current_album_tracks = <<TrackPath(mp.music_source, Files[i])>>
                           /\ mp'.current_track_path = TrackPath(mp.music_source, Files[i])
                           /\ Started(mp', TrackPath(mp.music_source, Files[i]))
                     /\ mp'.current_track_index = 0
                     /\ mp'.single_track_mode
                     /\ mp'.repeat_mode = mp.repeat_mode
                ELSE mp' = Untouched(mp)]_vars

\* track:a was executed with the global repeat flag off: a single-track
\* session plays, the flag is still off
C14_Witness ==
    /\ controlFile.content = <<"track:", <<"a">>>>
    /\ mp.control_file_last_modified = controlFile.mtime
    /\ mp.single_track_mode
    /\ Len(mp.current_album_tracks) = 1
    /\ IsPlaying(mp)
    /\ ~mp.repeat_mode

\* track:c, which no file matches, was executed on a playing album and left it
C14_WitnessNotFound ==
    /\ controlFile.content = <<"track:", <<"c">>>>
    /\ mp.control_file_last_modified = controlFile.mtime
    /\ mp.music_source # None
    /\ Len(mp.current_album_tracks) = 2
    /\ IsPlaying(mp)

\* C15: when the engine refuses the track that track:<name> resolved, the
\* session is what it was before the command.
C15_RevertOnLoadFailure ==
    [][\A n \in TrackNames :
          (CommandRead(<<"track:", n>>) /\ mp.music_source # None /\ Matching(n) # {}
              /\ ~IsPlaying(mp')) =>
             Session(mp') = Session(mp)]_vars

\* the session is empty: nothing loaded, no current track
NoSession(s) ==
    /\ s.current_album = NoPath
    /\ s.current_album_tracks = <<>>
    /\ s.current_track_path = NoPath

\* C16: stop leaves the Controller Empty from every state: the engine is
\* stopped and the playlist, the current track and the album are released.
C16_StopGivesEmpty ==
    [][CommandRead(<<"stop">>) =>
          /\ mp'.vlc_state = "Stopped"
          /\ ~mp'.raised
          /\ NoSession(mp')]_vars

\* C17: at the end of a track: in single-track mode the track at the same
\* index is started again; otherwise, if a track follows, the next one is
\* started; at the last index the first one is started if repeat is on, and if
\* it is off no track is started and the player rests with its playlist.
C17_TrackEnd ==
    [][MP_TrackEnd =>
          LET tracks == mp.current_album_tracks
              index == mp.current_track_index
              Goes(i) == /\ mp'.current_track_index = i
                         /\ mp'.current_album_tracks = tracks
                         /\ mp'.single_track_mode = mp.single_track_mode
                         /\ Started(mp', tracks[i + 1])
          IN  CASE mp.single_track_mode -> Goes(index)
                [] index < Len(tracks) - 1 -> Goes(index + 1)
                [] mp.repeat_mode -> Goes(0)
                [] OTHER -> mp' = [Call(mp) EXCEPT !.vlc_state = "Ended"]]_vars

\* the last track of the album has ended with repeat off: the engine rests at
\* the end and the two tracks are still loaded
C17_Witness ==
    /\ mp.vlc_state = "Ended"
    /\ ~mp.repeat_mode
    /\ ~mp.single_track_mode
    /\ Len(mp.current_album_tracks) = 2
    /\ mp.current_track_index = 1

\* the session's repeat mode is LoopAlbum or LoopSingleTrack
Looping(s) == s.repeat_mode \/ s.single_track_mode

\* C18: next at the last index and previous at index 0 start the first,
\* respectively the last track exactly if the session loops (album or single
\* track), and otherwise leave index and engine as they are; away from a
\* boundary the index moves by one; with no playlist both change nothing.
C18_NextPreviousWrap ==
    [][LET tracks == mp.current_album_tracks
           index == mp.current_track_index
           last == Len(tracks) - 1
           Goes(i) == /\ mp'.current_track_index = i
                      /\ mp'.current_album_tracks = tracks
                      /\ Started(mp', tracks[i + 1])
           Move(boundary, wrap, step) ==
               CASE tracks = <<>> -> mp' = Untouched(mp)
                 [] index # boundary -> Goes(index + step)
                 [] Looping(mp) -> Goes(wrap)
                 [] OTHER -> mp' = Untouched(mp)
       IN  /\ CommandRead(<<"next">>) => Move(last, 0, 1)
           /\ CommandRead(<<"previous">>) => Move(0, last, -1)]_vars

\* the engine is neither playing nor paused and a playlist is kept whose
\* current index is valid
CachedSession(s) ==
    /\ s.vlc_state \notin {"Playing", "Paused"}
    /\ s.current_album_tracks # <<>>
    /\ s.current_track_index \in 0..(Len(s.current_album_tracks) - 1)

\* C19: play on a paused player resumes the paused track: the engine plays,
\* session and media as they were.  play on a player that is not active and
\* keeps a session starts the track at the kept index.
C19_PlayResumes ==
    [][CommandRead(<<"play">>) =>
          /\ mp.vlc_state = "Paused" =>
                /\ IsPlaying(mp')
                /\ mp'.resumed
                /\ Session(mp') = Session(mp)
                /\ mp'.vlc_media = mp.vlc_media
          /\ CachedSession(mp) =>
                /\ mp'.current_album_tracks = mp.current_album_tracks
                /\ mp'.current_track_index = mp.current_track_index
                /\ Started(mp', mp.current_album_tracks[mp.current_track_index + 1])]_vars

\* play has just resumed a paused track
C19_Witness ==
    /\ controlFile.content = <<"play">>
    /\ mp.control_file_last_modified = controlFile.mtime
    /\ mp.resumed
    /\ IsPlaying(mp)
    /\ mp.current_album_tracks # <<>>

\* play has just started the kept track of a player that had been stopped
C19_WitnessReload ==
    /\ controlFile.content = <<"play">>
    /\ mp.control_file_last_modified = controlFile.mtime
    /\ controlFile.mtime = 3
    /\ ~mp.resumed
    /\ IsPlaying(mp)
    /\ mp.current_track_index = 1

\* C20: play in any other situation changes nothing: on a playing player it
\* goes on playing the same index, and on an empty player with no session it
\* loads no playlist and starts nothing.
C20_PlayOtherwiseNoOp ==
    [][CommandRead(<<"play">>) =>
          /\ IsPlaying(mp) => mp' = Untouched(mp)
          /\ (mp.vlc_state \notin {"Playing", "Paused"} /\ mp.current_album_tracks = <<>>)
                => mp' = Untouched(mp)]_vars

\* C21: pause changes state only from playing, which it takes to paused; read
\* while nothing is loaded, while stopped or while paused it leaves the
\* fields of the player and the engine's state as they are.
C21_PauseOnlyFromPlaying ==
    [][CommandRead(<<"pause">>) =>
          /\ IsPlaying(mp) => (mp'.vlc_state = "Paused" /\ Session(mp') = Session(mp))
          /\ ~IsPlaying(mp) => mp' = Untouched(mp)]_vars

Clamped(v) == IF v > 100 THEN 100 ELSE IF v < 0 THEN 0 ELSE v

\* C22: set_volume(v) succeeds for every integer v in every state of the
\* player, stores v clamped into 0..100 and hands that volume to the engine
\* in the same call; the stored volume stays within 0..100.
C22_SetVolumeClamps ==
    /\ pl.volume \in 0..100
    /\ cmdLog.by = "set_volume" =>
          /\ cmdLog.result = TRUE
          /\ pl.volume = Clamped(cmdLog.command[2])
          /\ pl.vlc_volume = Clamped(cmdLog.command[2])

UnknownText(text) ==
    LET content == Strip(text)
    IN  /\ content # <<>>
        /\ Lower(content) \notin Keywords
        /\ ~StartsWith(Lower(content), Str_album)
        /\ ~StartsWith(Lower(content), Str_track)
        /\ ~StartsWith(Lower(content), Str_volume)

\* C24: a text that matches no rule of the grammar is never executed: the
\* code that reads it leaves the player as it is (main_loop, which stops the
\* player for the new mount before it reads, leaves it stopped) and starts
\* nothing.
C24_UnknownNeverExecuted ==
    [][UnknownText(controlFile.content) =>
          /\ Req_AppProcessControlFile => pl' = pl
          /\ Req_MainLoopTurn => pl' = PlayerStop(pl)]_vars

\* C25: a text that is empty once trimmed is no command: the turn of
\* main_loop that reads it makes no call on the player beyond the stop for the
\* new mount, and logs no complaint about an invalid command.
C25_EmptyIsNoOp ==
    [][(Strip(controlFile.content) = <<>> /\ Req_MainLoopTurn) =>
          /\ pl' = PlayerStop(pl)
          /\ cmdLog'.result = <<>>]_vars

\* the operation of the player that a keyword names
Operation(keyword, s, ok) ==
    CASE keyword = Str_play -> ResumePlayback(s, ok)
      [] keyword = Str_pause -> PausePlayback(s)
      [] keyword = Str_stop -> StopPlayback(s)
      [] keyword = Str_next -> NextTrack(s, ok)
      [] keyword = Str_previous -> PreviousTrack(s, ok)

\* C26: play, pause, stop, next, previous, in any letter case and with
\* whitespace around, are each read as that command and handed to exactly the
\* operation of the player that the keyword names.
C26_KeywordsDispatch ==
    [][(Cmd_ControlMonitorLoop /\ Lower(Strip(controlFile.content)) \in Keywords) =>
          /\ cmdLog'.command \in {<<"play">>, <<"pause">>, <<"stop">>, <<"next">>, <<"previous">>}
          /\ \E ok \in BOOLEAN :
                mp' = Operation(Lower(Strip(controlFile.content)), Untouched(mp), ok)]_vars

\* a text that starts with Album: or Track: in another letter case
MiscasedPrefix(text) ==
    LET content == Strip(text)
    IN  \/ StartsWith(Lower(content), Str_album) /\ ~StartsWith(content, Str_Album)
        \/ StartsWith(Lower(content), Str_track) /\ ~StartsWith(content, Str_Track)

\* C27: Album: and Track: are matched in exactly this letter case: a text that
\* starts with the prefix in another case is read as no album and no track
\* command but as an unknown one, which is logged and starts nothing.
C27_PrefixCaseSensitive ==
    [][(Cmd_ControlMonitorLoop /\ MiscasedPrefix(controlFile.content)) =>
          /\ cmdLog'.command[1] \notin {"album:", "track:"}
          /\ mp' = [Untouched(mp) EXCEPT !.logged = "Unknown control command"]]_vars

\* C28: for a text Album:<text> or Track:<text> the name handed on is <text>
\* without the whitespace at its two ends and otherwise character by
\* character, also when <text> holds a colon or the prefix once more.
C28_PayloadVerbatim ==
    [][(Req_MainLoopTurn /\ fsControl # None
          /\ (StartsWith(Strip(controlFile.content), Str_Album)
                \/ StartsWith(Strip(controlFile.content), Str_Track))) =>
          cmdLog'.command[2] = Strip(From(Strip(controlFile.content), 6))]_vars

\* C29: for volume:<payload> with a payload that is no integer nothing is
\* raised and nothing is set: the volume and every other field stay, and the
\* command is logged as a bad one; with an integer payload, set_volume gets
\* that integer.
C29_VolumePayload ==
    [][(Cmd_ControlMonitorLoop /\ StartsWith(Lower(Strip(controlFile.content)), Str_volume)) =>
          LET payload == PyInt(From(Strip(controlFile.content), 7))
          IN  IF payload[1]
                 THEN mp' = SetVolume(Untouched(mp), payload[2])
                 ELSE /\ mp'.logged # ""
                      /\ mp' = [Untouched(mp) EXCEPT !.logged = mp'.logged]]_vars

\* the candidates of a resolver, by priority: the environment override, the
\* fixed paths of a deployment, the entries of /media/pi with the name of the
\* role, the last resort
Tiers(r, w) ==
    CASE r = "find_music_usb" ->
           <<{w.env_music} \ {None},
             {"/home/pi/usb/music", "/shared/usb/music"},
             {"/media/pi/MUSIC", "/media/pi/MUSIC1"},
             {"/home/pi/usb", "/mnt/usb"}>>
      [] r = "find_control_usb" ->
           <<{w.env_control} \ {None},
             {"/home/pi/usb/playcard", "/shared/usb/playcard"},
             {"/media/pi/PLAY_CARD", "/media/pi/PLAY_CARD1"},
             {FindMusicUsb(w)} \ {None}>>
      [] r = "_find_music_usb" ->
           <<{w.env_music} \ {None}, {}, {"/media/pi/MUSIC", "/media/pi/MUSIC1"}, {}>>
      [] r = "_find_control_usb" ->
           <<{w.env_control} \ {None}, {},
             {"/media/pi/PLAY_CARD", "/media/pi/PLAY_CARD1"},
             {MonFindMusicUsb(w)} \ {None}>>

\* a candidate is valid if it is accessible and, for the control role, holds
\* the control file
ValidCandidates(r, w, k) ==
    {path \in Tiers(r, w)[k] :
        /\ IsUsbAccessible(w, path)
        /\ r \in {"find_control_usb", "_find_control_usb"} => path \in w.control_file}

\* C30: a resolver returns a valid candidate of the first priority that has
\* one: what it returns is valid, every candidate of a higher priority is
\* invalid, and it returns None only if no candidate is valid.
C30_FirstValidInPriority ==
    resolved.by # "" =>
        IF resolved.path = None
           THEN \A k \in 1..4 : ValidCandidates(resolved.by, world, k) = {}
           ELSE \E k \in 1..4 :
                   /\ resolved.path \in ValidCandidates(resolved.by, world, k)
                   /\ \A j \in 1..(k - 1) : ValidCandidates(resolved.by, world, j) = {}

\* find_control_usb passed over the environment override and both fixed
\* paths, which are there without the control file, and took the card that
\* /media/pi lists
C30_Witness ==
    /\ resolved.by = "find_control_usb"
    /\ world.env_control = "/env/card"
    /\ {"/env/card", "/home/pi/usb/playcard"} \subseteq world.exists \ world.control_file
    /\ resolved.path = "/media/pi/PLAY_CARD1"

\* len(os.path.basename(path)) of the entries of /media/pi; the names differ
\* in length, so the shorter one is also the first of the order
\* (length, name)
NameLength ==
    [path \in {"/media/pi/MUSIC", "/media/pi/MUSIC1",
               "/media/pi/PLAY_CARD", "/media/pi/PLAY_CARD1"} |->
        CASE path = "/media/pi/MUSIC" -> 5
          [] path = "/media/pi/MUSIC1" -> 6
          [] path = "/media/pi/PLAY_CARD" -> 9
          [] path = "/media/pi/PLAY_CARD1" -> 10]

\* C31: when a resolver returns an entry of /media/pi as a candidate of the
\* third priority, that entry has the shortest name among the valid entries
\* of the role, whatever the order of the listing, for both roles.
C31_TieBreak ==
    (/\ resolved.by # ""
     /\ resolved.path \in ValidCandidates(resolved.by, world, 3)
     /\ \A j \in 1..2 : ValidCandidates(resolved.by, world, j) = {})
        => \A other \in ValidCandidates(resolved.by, world, 3) :
              NameLength[resolved.path] <= NameLength[other]

\* what a resolver returns in a world
ResolverResult(r, w) ==
    CASE r = "find_music_usb" -> FindMusicUsb(w)
      [] r = "find_control_usb" -> FindControlUsb(w)
      [] r = "_find_music_usb" -> MonFindMusicUsb(w)
      [] r = "_find_control_usb" -> MonFindControlUsb(w)

\* the world without the path
Absent(w, path) ==
    [w EXCEPT !.exists = @ \ {path}, !.control_file = @ \ {path}, !.fault = NoFault]

\* the directory at fault cannot be listed, is empty, or the stat of its
\* entry fails, and stays so for this resolver (USBMonitor's resolvers may
\* repair a permission fault)
FailsDeepCheck(r, w) ==
    /\ w.fault.path \in w.exists
    /\ w.fault.kind \in Faults
    /\ ~(/\ w.fault.kind = "permission denied"
         /\ w.permission_fix
         /\ r \in {"_find_music_usb", "_find_control_usb"})

\* C32: a candidate that exists but fails the deep check (its contents
\* cannot be listed, it is empty, or the stat of a sampled entry fails) is
\* treated as an absent one: the resolver does not return it and returns
\* what it would return if the path did not exist.  The errors of listdir
\* and stat end in the check's answer, so a resolver always returns.
C32_StaleIsAbsent ==
    [][\A r \in Resolvers :
         (Resolve /\ resolved'.by = r /\ FailsDeepCheck(r, world))
            => /\ resolved'.path # world.fault.path
               /\ resolved'.path = ResolverResult(r, Absent(world, world.fault.path))]_vars

\* C33: a transport command of the web layer (toggle play/pause, next,
\* previous) acts on the player only if the control source is resolved when
\* the handler looks for it (find_control_usb for web_interface.py, the
\* mount of the card for player.py) and otherwise leaves the player as it
\* is; a volume in range is set whatever the control source is.
C33_TransportNeedsControl ==
    /\ [][Web_Attempt =>
             IF FindControlUsb(world) # None
                THEN pl' = Transport(web.op, pl)
                ELSE pl' = pl]_vars
    /\ [][Web_PlayerRoute =>
             IF CONTROL_USB_MOUNT \in world.exists
                THEN pl' = Transport(cmdLog'.command[1], pl)
                ELSE pl' = pl]_vars
    /\ [][Req_SetVolume =>
             (cmdLog'.command[2] \in 0..100 => pl'.volume = cmdLog'.command[2])]_vars

\* with no card and no control file anywhere from the start, a transport
\* request has been served and the album still plays its first track, and
\* the volume has been set to 30
C33_Witness ==
    /\ web.mounts = 0
    /\ world.exists = {"/media/pi/MUSIC"}
    /\ world.control_file = {}
    /\ web.served >= 1
    /\ resolved = [by |-> "find_control_usb", path |-> None]
    /\ pl.vlc_state = "Playing"
    /\ pl.list_index = 0
    /\ cmdLog.by = "set_volume"
    /\ pl.volume = 30

\* the code points of the characters of the file names, in their order
CharOrder == <<".flac", ".mp3", "A", "a", "b", "c">>
CharRank(c) == CHOOSE i \in 1..Len(CharOrder) : CharOrder[i] = c

\* s < t as Python compares strings
RECURSIVE StrLess(_, _)
StrLess(s, t) ==
    IF t = <<>> THEN FALSE
    ELSE IF s = <<>> THEN TRUE
    ELSE IF Head(s) = Head(t) THEN StrLess(Tail(s), Tail(t))
    ELSE CharRank(Head(s)) < CharRank(Head(t))

\* the rank of a file for a name: 1 its stem is the name, 2 it starts with
\* the name, 3 it holds the name (all without regard to case)
NameRank(name, path) ==
    LET file == Lower(Basename(path))
        track_lower == Lower(name)
    IN  CASE SubSeq(file, 1, Len(file) - 1) = track_lower -> 1
          [] IsPrefix(track_lower, file) -> 2
          [] OTHER -> 3

Matches(name, walked) ==
    {walked[i] : i \in {j \in DOMAIN walked : IsInfix(Lower(name), Lower(Basename(walked[j])))}}

\* C34: the track that play_track_by_name plays is a matching file of the
\* best rank (stem equal, then prefix, then substring), and among the
\* matching files of that rank the smallest by path, whatever the order in
\* which os.walk hands out the files.
C34_BestRankSmallestPath ==
    (search.asked /\ Matches(search.name, search.walked) # {}) =>
        /\ mp.current_track_path \in Matches(search.name, search.walked)
        /\ \A other \in Matches(search.name, search.walked) :
              /\ NameRank(search.name, mp.current_track_path) <= NameRank(search.name, other)
              /\ NameRank(search.name, mp.current_track_path) = NameRank(search.name, other)
                    => ~StrLess(Basename(other), Basename(mp.current_track_path))

\* the callbacks of one role form a chain that ends at the cached path
Chain(log, cached) ==
    /\ \A i \in 1..Len(log) :
          /\ log[i][2] = (IF i = 1 THEN None ELSE log[i - 1][1])
          /\ log[i][1] # log[i][2]
    /\ cached = (IF log = <<>> THEN None ELSE Last(log)[1])

\* C35: for each role the oldPath of a callback is the newPath of the
\* callback before it (None for the first), its newPath differs from its
\* oldPath, and the detector's cached path is the newPath of the last
\* callback from the moment that callback runs.
C35_CallbackChain ==
    /\ Chain(musicLog, current_music_usb)
    /\ Chain(controlLog, current_control_usb)

\* the music stick came and went, the card came
C35_Witness ==
    /\ Len(musicLog) = 2
    /\ musicLog[2] = <<None, musicLog[1][1]>>
    /\ Len(controlLog) >= 1
    /\ current_control_usb # None

\* C36: at most one detector loop makes checks: a start_monitoring() while
\* monitoring starts no thread, and once stop_monitoring() has been followed
\* by start_monitoring() the loop of the session before makes no check.
C36_OneLoopChecks ==
    /\ [][StartAgain => (pc' = pc /\ procAlive' = procAlive /\ earlier'.pc = earlier.pc)]_vars
    /\ [][~E_CheckUsbChanges]_vars

\* C37: an exception raised in a music or control callback does not end
\* detection: while monitoring is on and the udevadm process is up, the
\* detector loop, once it has made a check, is alive, so that the other
\* role's change and later changes are still detected.
C37_SurvivesCallbackError ==
    (monitoring /\ callerPc = "started" /\ ctx # "scan") => pc # "exited"

\* the playlist entry at the current index, NoPath when there is none
EntryAtIndex(s) ==
    IF s.current_track_index \in 0..(Len(s.current_album_tracks) - 1)
       THEN s.current_album_tracks[s.current_track_index + 1]
       ELSE NoPath

\* the engine's media is a track of the playlist
StartedFromPlaylist(s) ==
    \E i \in 1..Len(s.current_album_tracks) : s.vlc_media = s.current_album_tracks[i]

\* no call of the handler or of a command is in progress
Quiescent == vlcPc = "idle" /\ ctlPc = "idle"

\* C38: whenever no call is in progress and the playlist is not empty,
\* current_track_index is an index of the playlist and, once the engine plays
\* a track of the playlist, current_track_path is the entry at that index
C38_IndexInPlaylist ==
    (Quiescent /\ mp.current_album_tracks # <<>>) =>
        /\ mp.current_track_index \in 0..(Len(mp.current_album_tracks) - 1)
        /\ StartedFromPlaylist(mp) => mp.current_track_path = EntryAtIndex(mp)

\* the step in which play finds no playlist and loads the default album
DefaultAlbumLoaded ==
    /\ CommandRead(<<"play">>)
    /\ mp.vlc_state \notin {"Paused", "Playing"}
    /\ mp.current_album_tracks = <<>>
    /\ mp.music_source # None

\* C39: in single-track mode the playlist has at most one track, and both
\* album:<name> for a folder that holds audio files and the load of the
\* default album leave the player out of single-track mode
C39_SingleTrackNoLeak ==
    /\ [](mp.single_track_mode => Len(mp.current_album_tracks) <= 1)
    /\ [][DefaultAlbumLoaded => ~mp'.single_track_mode]_vars
    /\ [][(CommandRead(<<"album:", <<AlbumDir>>>>) /\ mp.music_source # None) =>
              ~mp'.single_track_mode]_vars

\* C40: at most one control monitor loop thread is alive, the control file
\* is read for execution at most once per modification, and it is not read
\* for execution while control_source is None after set_control_source has
\* returned
C40_OneLoopOnceEach ==
    /\ Cardinality({t \in LoopThreads : Alive(t)}) <= 1
    /\ \A v \in LoopVersions : loops.executed[v] <= 1
    /\ ~loops.orphan

(***************************************************************************)
(* Properties of the detector when its event stream fails or is stopped.   *)
(***************************************************************************)
\* C8: while monitoring is on, the detector loop is alive: the udevadm stream
\* ending does not end detection.
C8_SurvivesStreamEnd ==
    (monitoring /\ callerPc = "started" /\ pc # "init") => pc # "exited"

\* C9: when the event stream cannot be established (the spawn fails) the detector
\* goes on to poll with the same compare logic: in polling mode the callbacks are still exactly the
\* changes, and a path that differs from the cached one is eventually delivered
\* (the last callback's newPath is the mounted path) unless monitoring is stopped.
C9_PollingDelivers ==
    /\ [][(pc = "popen" /\ pc' # "popen") => (procAlive' \/ pc' = "pollTop")]_vars
    /\ [](InPolling => C1_OncePerChange)
    /\ (InPolling /\ (fsMusic # current_music_usb \/ fsControl # current_control_usb))
          ~> \/ ~monitoring
             \/ /\ current_music_usb = fsMusic
                /\ LastNew(musicLog) = fsMusic
                /\ current_control_usb = fsControl
                /\ LastNew(controlLog) = fsControl

\* the spawn failed, the detector polls, and a poll delivered a second music change
C9_Witness ==
    /\ ctx = "poll"
    /\ pc = "sleep3"
    /\ monitoring
    /\ ~procAlive
    /\ Len(musicLog) = 2
    /\ LastNew(musicLog) = fsMusic

\* C10: after stop_monitoring() the detector loop exits without a further device
\* event (a loop that has not exited can take a step of its own), and the
\* spawned udevadm process has ended once the loop has.
C10_StopTerminates ==
    callerPc = "stopped" =>
        IF pc = "exited" THEN ~procAlive ELSE ENABLED MonThreadStep

====
